---- MODULE Spec2Model ----
(***************************************************************************)
(* Model of the Corporate Buzzword Translator search engine                *)
(* (src/script.js, src/buzzwords.js).                                      *)
(*                                                                         *)
(* Strings are sequences of character codes (UTF-16 code units), so that   *)
(* toLowerCase, includes, split, trim and the regular expressions of the   *)
(* code are computed rather than assumed.  Scores are IEEE 754 doubles,    *)
(* computed with the rounding of JavaScript numbers.                       *)
(***************************************************************************)
EXTENDS Integers, Sequences, FiniteSets, TLC

VARIABLES
  searchEngine,   \* window.searchEngine: "undefined" until an engine is created
  buzzwords,      \* this.buzzwords: the dictionary the engine reads
  globalBuzzwords,\* the global `buzzwords` array of buzzwords.js
  searchInput,    \* this.searchInput.value
  debounceTimer,  \* this.debounceTimer: 0 is null, else a timer id
  timers,         \* the browser's pending timeouts set by debouncedSearch
  searchCache,    \* this.searchCache: the Map, in insertion order
  view,           \* what the page shows
  lastCall,       \* the most recent performSearch call and its outcome
  events          \* number of events handled so far

vars == <<searchEngine, buzzwords, globalBuzzwords, searchInput, debounceTimer, timers,
          searchCache, view, lastCall, events>>

-----------------------------------------------------------------------------
(* Characters and strings *)

Min2(a, b) == IF a <= b THEN a ELSE b
Max2(a, b) == IF a >= b THEN a ELSE b

\* \s of a JavaScript regular expression, and what String.prototype.trim strips
IsWhitespace(c) ==
  c \in {9, 10, 11, 12, 13, 32, 160, 5760, 8232, 8233, 8239, 8287, 12288, 65279}
  \/ c \in 8192..8202

\* [\x00-\x1F\x7F]
IsControl(c) == c \in 0..31 \/ c = 127

\* [<>\"'&]
IsMarkup(c) == c \in {60, 62, 34, 39, 38}

\* [a-zA-Z]
IsLetter(c) == c \in 65..90 \/ c \in 97..122

LowerChar(c) == IF c \in 65..90 THEN c + 32 ELSE c

\* String.prototype.toLowerCase on the characters the model uses
ToLowerCase(s) == [i \in 1..Len(s) |-> LowerChar(s[i])]

\* String.prototype.includes
Includes(s, t) ==
  \E i \in 0..(Len(s) - Len(t)) : SubSeq(s, i + 1, i + Len(t)) = t

\* s.replace(/[<>\"'&]/g, '')
StripMarkup(s) == SelectSeq(s, LAMBDA c : ~IsMarkup(c))

\* s.replace(/[\x00-\x1F\x7F]/g, '')
StripControl(s) == SelectSeq(s, LAMBDA c : ~IsControl(c))

\* the characters of s at the positions idx, whitespace written as a space
SpacedAt(s, idx) ==
  [k \in 1..Len(idx) |-> IF IsWhitespace(s[idx[k]]) THEN 32 ELSE s[idx[k]]]

\* s.replace(/\s+/g, ' '): of each run of whitespace the first character
\* stays, as a space
CollapseWhitespace(s) ==
  SpacedAt(s, SelectSeq([i \in 1..Len(s) |-> i],
                        LAMBDA i : \/ ~IsWhitespace(s[i])
                                   \/ i = 1
                                   \/ ~IsWhitespace(s[i - 1])))

RECURSIVE TrimStart(_)
TrimStart(s) ==
  IF s # <<>> /\ IsWhitespace(Head(s)) THEN TrimStart(Tail(s)) ELSE s

RECURSIVE TrimEnd(_)
TrimEnd(s) ==
  IF s # <<>> /\ IsWhitespace(s[Len(s)])
  THEN TrimEnd(SubSeq(s, 1, Len(s) - 1)) ELSE s

\* String.prototype.trim
Trim(s) == TrimEnd(TrimStart(s))

\* the last position of the word of s that starts at position i
WordEnd(s, i) ==
  CHOOSE j \in i..Len(s) :
    /\ j = Len(s) \/ IsWhitespace(s[j + 1])
    /\ \A m \in i..j : ~IsWhitespace(s[m])

WordsAt(s, starts) == [k \in 1..Len(starts) |-> SubSeq(s, starts[k], WordEnd(s, starts[k]))]

\* s.split(/\s+/).filter(word => word.length > 0)
SplitWords(s) ==
  WordsAt(s, SelectSeq([i \in 1..Len(s) |-> i],
                       LAMBDA i : /\ ~IsWhitespace(s[i])
                                  /\ i = 1 \/ IsWhitespace(s[i - 1])))

\* r with x appended unless r holds it
AddOnce(r, x) == IF \E i \in 1..Len(r) : r[i] = x THEN r ELSE Append(r, x)

\* [...new Set(seq)]: first occurrences, in order
RECURSIVE Dedup(_)
Dedup(seq) ==
  IF seq = <<>> THEN <<>>
  ELSE AddOnce(Dedup(SubSeq(seq, 1, Len(seq) - 1)), seq[Len(seq)])

-----------------------------------------------------------------------------
(* IEEE 754 binary64 arithmetic, as JavaScript numbers compute it.

   A natural number is a little-endian sequence of limbs in base 2^15 with
   no leading zero limb (<<>> is 0).  A double is [neg, m]: the value
   (-1)^neg * m * 2^(-Scale).  Every result is rounded to 53 significant
   bits, ties to even; doubles whose magnitude is below 2^(52 - Scale) and
   that are not multiples of 2^(-Scale) are outside the model's range (no
   score, threshold or quotient of the program is that small). *)

Base == 32768
LimbBits == 15
Scale == 64
Precision == 53

RECURSIVE BNorm(_)
BNorm(a) ==
  IF a # <<>> /\ a[Len(a)] = 0 THEN BNorm(SubSeq(a, 1, Len(a) - 1)) ELSE a

BFromInt(k) == BNorm(<<k % Base, (k \div Base) % Base, k \div (Base * Base)>>)

Limb(a, i) == IF i >= 1 /\ i <= Len(a) THEN a[i] ELSE 0

RECURSIVE BAddFrom(_, _, _, _)
\* limbs i.. of a + b + carry
BAddFrom(a, b, i, carry) ==
  IF i > Len(a) /\ i > Len(b)
  THEN (IF carry = 0 THEN <<>> ELSE <<carry>>)
  ELSE LET t == Limb(a, i) + Limb(b, i) + carry
       IN <<t % Base>> \o BAddFrom(a, b, i + 1, t \div Base)

BAdd(a, b) == BAddFrom(a, b, 1, 0)

RECURSIVE BSubFrom(_, _, _, _)
\* limbs i.. of a - b - borrow, for a >= b
BSubFrom(a, b, i, borrow) ==
  IF i > Len(a) THEN <<>>
  ELSE LET t == Limb(a, i) - Limb(b, i) - borrow
       IN IF t < 0 THEN <<t + Base>> \o BSubFrom(a, b, i + 1, 1)
          ELSE <<t>> \o BSubFrom(a, b, i + 1, 0)

BSub(a, b) == BNorm(BSubFrom(a, b, 1, 0))

RECURSIVE BCmpAt(_, _, _)
BCmpAt(a, b, i) ==
  IF i = 0 THEN 0
  ELSE IF a[i] # b[i] THEN (IF a[i] < b[i] THEN -1 ELSE 1)
  ELSE BCmpAt(a, b, i - 1)

\* -1, 0, 1 as a < b, a = b, a > b
BCmp(a, b) ==
  IF Len(a) # Len(b) THEN (IF Len(a) < Len(b) THEN -1 ELSE 1)
  ELSE BCmpAt(a, b, Len(a))

RECURSIVE BMulSmallFrom(_, _, _, _)
BMulSmallFrom(a, k, i, carry) ==
  IF i > Len(a) THEN (IF carry = 0 THEN <<>> ELSE <<carry>>)
  ELSE LET t == a[i] * k + carry
       IN <<t % Base>> \o BMulSmallFrom(a, k, i + 1, t \div Base)

\* a * k for 0 <= k < Base
BMulSmall(a, k) == BNorm(BMulSmallFrom(a, k, 1, 0))

Zeros(n) == [i \in 1..n |-> 0]

RECURSIVE BMulFrom(_, _, _)
BMulFrom(a, b, i) ==
  IF i > Len(b) THEN <<>>
  ELSE BAdd(IF b[i] = 0 \/ a = <<>> THEN <<>>
            ELSE Zeros(i - 1) \o BMulSmall(a, b[i]),
            BMulFrom(a, b, i + 1))

BMul(a, b) == BMulFrom(a, b, 1)

RECURSIVE BDivSmallAt(_, _, _, _, _)
\* long division by k < Base from limb i downwards; q holds the quotient
\* limbs found so far
BDivSmallAt(a, k, i, rem, q) ==
  IF i = 0 THEN [q |-> q, r |-> rem]
  ELSE BDivSmallAt(a, k, i - 1, (rem * Base + a[i]) % k,
                   <<(rem * Base + a[i]) \div k>> \o q)

BDivNorm(d) == [q |-> BNorm(d.q), r |-> d.r]

\* [q, r]: a = q * k + r, 0 <= r < k
BDivSmall(a, k) == BDivNorm(BDivSmallAt(a, k, Len(a), 0, <<>>))

RECURSIVE BitLen(_)
BitLen(k) == IF k = 0 THEN 0 ELSE 1 + BitLen(k \div 2)

\* the number of significant bits of a
BBits(a) == IF a = <<>> THEN 0 ELSE (Len(a) - 1) * LimbBits + BitLen(a[Len(a)])

\* a * 2^s
BShiftLeft(a, s) ==
  IF a = <<>> THEN <<>>
  ELSE Zeros(s \div LimbBits) \o BMulSmall(a, 2 ^ (s % LimbBits))

\* 2^s
BPow2(s) == BShiftLeft(<<1>>, s)

\* the low w limbs and the quotient and remainder hq of the limbs above
BSplit(low, hq, w) ==
  [q |-> hq.q, r |-> BNorm(low \o Zeros(w - Len(low)) \o <<hq.r>>)]

\* [q, r]: a = q * 2^s + r, 0 <= r < 2^s
BShiftRight(a, s) ==
  BSplit(SubSeq(a, 1, Min2(s \div LimbBits, Len(a))),
         BDivSmall(SubSeq(a, s \div LimbBits + 1, Len(a)), 2 ^ (s % LimbBits)),
         s \div LimbBits)

\* c compares the dropped bits with one half: round to nearest, ties to even
RoundsUp(c, sticky, odd) == c > 0 \/ (c = 0 /\ (sticky \/ odd))

RoundCut(cut, sticky, drop, down) ==
  BShiftLeft(IF RoundsUp(BCmp(cut.r, BPow2(drop - 1)), sticky, Limb(cut.q, 1) % 2 = 1)
               THEN BAdd(cut.q, <<1>>) ELSE cut.q,
             drop - down)

RoundAt(p, sticky, down, drop) ==
  IF drop = 0 THEN p ELSE RoundCut(BShiftRight(p, drop), sticky, drop, down)

\* The integer m nearest to (p + e) * 2^(-down), where 0 <= e < 1 and e > 0
\* iff sticky, among those with at most 53 significant bits: round to
\* nearest, ties to even
Round(p, sticky, down) == RoundAt(p, sticky, down, Max2(BBits(p) - Precision, down))

FZero == [neg |-> FALSE, m |-> <<>>]

\* the double of a small integer
FInt(k) == [neg |-> k < 0, m |-> BShiftLeft(BFromInt(IF k < 0 THEN -k ELSE k), Scale)]

Guard == 60

FQuotient(neg, d) == [neg |-> neg, m |-> Round(d.q, d.r # 0, Guard)]

\* x / k for an integer k in 1..Base-1
FDivInt(x, k) ==
  FQuotient(x.neg /\ x.m # <<>>, BDivSmall(BShiftLeft(x.m, Guard), k))

\* the double nearest to a/b: the value of a decimal literal such as 0.45
F(a, b) == FDivInt(FInt(a), b)

\* the double of sign neg nearest to the magnitude p * 2^(-Scale)
FRound(neg, p) == [neg |-> neg, m |-> Round(p, FALSE, 0)]

\* x + y for x and y of opposite signs, c comparing their magnitudes
FAddOpposite(x, y, c) ==
  IF c = 0 THEN FZero
  ELSE FRound(IF c > 0 THEN x.neg ELSE y.neg,
              IF c > 0 THEN BSub(x.m, y.m) ELSE BSub(y.m, x.m))

\* x + y
FAdd(x, y) ==
  IF x.neg = y.neg THEN [neg |-> x.neg, m |-> Round(BAdd(x.m, y.m), FALSE, 0)]
  ELSE FAddOpposite(x, y, BCmp(x.m, y.m))

FNeg(x) == IF x.m = <<>> THEN x ELSE [neg |-> ~x.neg, m |-> x.m]

\* x - y
FSub(x, y) == FAdd(x, FNeg(y))

\* x * y
FMul(x, y) ==
  IF x.m = <<>> \/ y.m = <<>> THEN FZero
  ELSE [neg |-> x.neg # y.neg, m |-> Round(BMul(x.m, y.m), FALSE, Scale)]

\* x < y
FLess(x, y) ==
  IF x.neg # y.neg THEN x.neg
  ELSE IF x.neg THEN BCmp(x.m, y.m) > 0 ELSE BCmp(x.m, y.m) < 0

\* Math.abs, Math.min, Math.max
FAbs(x) == [neg |-> FALSE, m |-> x.m]
FMin(x, y) == IF FLess(y, x) THEN y ELSE x
FMax(x, y) == IF FLess(x, y) THEN y ELSE x

\* The numeric literals of the matcher and the ranker
Lit_1_0  == FInt(1)
Lit_0_95 == F(19, 20)
Lit_0_9  == F(9, 10)
Lit_0_85 == F(17, 20)
Lit_0_8  == F(4, 5)
Lit_0_7  == F(7, 10)
Lit_0_6  == F(3, 5)
Lit_0_5  == F(1, 2)
Lit_0_45 == F(9, 20)
Lit_0_4  == F(2, 5)
Lit_0_3  == F(3, 10)
Lit_0_1  == F(1, 10)
Lit_0_01 == F(1, 100)

-----------------------------------------------------------------------------
(* Input validation and sanitization *)

\* A sanitizer without the first replacement
sanitizeInputKeepingMarkup(input) ==
  Trim(StripControl(CollapseWhitespace(input)))

\* sanitizeInput: the three replacements and the trim, in the code's order
sanitizeInput(input) ==
  Trim(StripControl(CollapseWhitespace(StripMarkup(input))))

MaxQueryLength == 100
MinQueryLength == 2

\* The checks of validateSearchInput on the sanitized string, in order
\* Validation without the test for a letter
ValidationAnyCharacters(sanitized) ==
  IF Len(sanitized) = 0
    THEN [valid |-> TRUE, sanitized |-> sanitized, message |-> "empty"]
  ELSE IF Len(sanitized) < MinQueryLength
    THEN [valid |-> FALSE, sanitized |-> sanitized, message |-> "too_short"]
  ELSE IF Len(sanitized) > MaxQueryLength
    THEN [valid |-> FALSE, sanitized |-> sanitized, message |-> "too_long"]
  ELSE [valid |-> TRUE, sanitized |-> sanitized, message |-> "valid"]

\* Validation with the test for a letter before the tests of the length
ValidationLettersFirst(sanitized) ==
  IF Len(sanitized) = 0
    THEN [valid |-> TRUE, sanitized |-> sanitized, message |-> "empty"]
  ELSE IF ~ \E i \in 1..Len(sanitized) : IsLetter(sanitized[i])
    THEN [valid |-> FALSE, sanitized |-> sanitized, message |-> "invalid_characters"]
  ELSE IF Len(sanitized) < MinQueryLength
    THEN [valid |-> FALSE, sanitized |-> sanitized, message |-> "too_short"]
  ELSE IF Len(sanitized) > MaxQueryLength
    THEN [valid |-> FALSE, sanitized |-> sanitized, message |-> "too_long"]
  ELSE [valid |-> TRUE, sanitized |-> sanitized, message |-> "valid"]

Validation(sanitized) ==
  IF Len(sanitized) = 0
    THEN [valid |-> TRUE, sanitized |-> sanitized, message |-> "empty"]
  ELSE IF Len(sanitized) < MinQueryLength
    THEN [valid |-> FALSE, sanitized |-> sanitized, message |-> "too_short"]
  ELSE IF Len(sanitized) > MaxQueryLength
    THEN [valid |-> FALSE, sanitized |-> sanitized, message |-> "too_long"]
  ELSE IF ~ \E i \in 1..Len(sanitized) : IsLetter(sanitized[i])
    THEN [valid |-> FALSE, sanitized |-> sanitized, message |-> "invalid_characters"]
  ELSE [valid |-> TRUE, sanitized |-> sanitized, message |-> "valid"]

\* validateSearchInput
validateSearchInput(input) == Validation(sanitizeInput(input))

-----------------------------------------------------------------------------
(* Matcher *)

RECURSIVE LevRowWithoutSubstitution(_, _, _, _, _)
\* one row of the matrix when only insertion and deletion are counted
LevRowWithoutSubstitution(prev, cur, i, str1, str2) ==
  LET j == Len(cur)
  IN IF j > Len(str1) THEN cur
     ELSE LevRowWithoutSubstitution(prev,
                 Append(cur, IF str2[i] = str1[j]
                               THEN prev[j]
                               ELSE Min2(cur[j] + 1, prev[j + 1] + 1)),
                 i, str1, str2)

RECURSIVE LevRow(_, _, _, _, _)
\* one row i >= 1 of the matrix: cur holds cells 0..Len(cur)-1 of row i
LevRow(prev, cur, i, str1, str2) ==
  LET j == Len(cur)
  IN IF j > Len(str1) THEN cur
     ELSE LevRow(prev,
                 Append(cur, IF str2[i] = str1[j]
                               THEN prev[j]
                               ELSE Min2(Min2(prev[j] + 1, cur[j] + 1), prev[j + 1] + 1)),
                 i, str1, str2)

RECURSIVE LevRows(_, _, _, _), LevAfter(_, _, _, _)
\* the last row of the matrix, from row i on, prev being row i - 1
LevRows(prev, i, str1, str2) ==
  IF i > Len(str2) THEN prev
  ELSE LevAfter(LevRow(prev, <<i>>, i, str1, str2), i, str1, str2)

\* the rows after the completed row i
LevAfter(row, i, str1, str2) ==
  IF Len(row) > 0 THEN LevRows(row, i + 1, str1, str2) ELSE row

\* levenshteinDistance: matrix[str2.length][str1.length]
levenshteinDistance(str1, str2) ==
  LevRows([j \in 1..(Len(str1) + 1) |-> j - 1], 1, str1, str2)[Len(str1) + 1]

RECURSIVE CommonPrefix(_, _)
\* the number of leading positions at which the two strings agree
CommonPrefix(s, t) ==
  IF s # <<>> /\ t # <<>> /\ Head(s) = Head(t)
  THEN 1 + CommonPrefix(Tail(s), Tail(t)) ELSE 0

RECURSIVE PrefixBonus(_)
\* prefixBonus after p iterations of "prefixBonus += 0.1"
PrefixBonus(p) == IF p = 0 THEN FZero ELSE FAdd(PrefixBonus(p - 1), Lit_0_1)

\* The similarity without the bonus for common prefixes
calculateFuzzyMatchWithoutBonus(str1, str2) ==
  IF Max2(Len(str1), Len(str2)) = 0 THEN Lit_1_0
  ELSE FMin(Lit_1_0,
            FSub(FInt(1), FDivInt(FInt(levenshteinDistance(str1, str2)),
                                  Max2(Len(str1), Len(str2)))))

\* calculateFuzzyMatch(...).score:
\* Math.min(1.0, 1 - distance / maxLength + prefixBonus)
calculateFuzzyMatch(str1, str2) ==
  IF Max2(Len(str1), Len(str2)) = 0 THEN Lit_1_0
  ELSE FMin(Lit_1_0,
            FAdd(FSub(FInt(1), FDivInt(FInt(levenshteinDistance(str1, str2)),
                                       Max2(Len(str1), Len(str2)))),
                 PrefixBonus(CommonPrefix(str1, str2))))

(* A dictionary entry is a record
     [shape, phrase, translation, kw, keywords, category]
   shape "object" is a JavaScript object, "null" is null and "primitive" a
   number or string in the array; phrase <<>> and translation "" stand for a
   missing field; kw says whether entry.keywords is an array, is
   missing, or is some other truthy value; a keyword equal to NonString
   stands for an array element that is not a string. *)
NonString == <<-1>>

Entry(phrase, translation, keywords, category) ==
  [shape |-> "object", phrase |-> phrase, translation |-> translation,
   kw |-> "array", keywords |-> keywords, category |-> category]

\* fuzzyScore > 0.6 gives fuzzyScore * 0.5
FuzzyContribution(fuzzyScore) ==
  IF FLess(Lit_0_6, fuzzyScore) THEN FMul(fuzzyScore, Lit_0_5) ELSE FZero

\* The chain with the values of the two containment rules exchanged
ContributionOfExchanged(keywordLower, queryWord) ==
  IF keywordLower = queryWord THEN Lit_1_0
  ELSE IF Includes(keywordLower, queryWord) THEN Lit_0_7
  ELSE IF Includes(queryWord, keywordLower) THEN Lit_0_8
  ELSE FuzzyContribution(calculateFuzzyMatch(keywordLower, queryWord))

\* The if/else chain in the inner forEach of calculateKeywordMatches
ContributionOf(keywordLower, queryWord) ==
  IF keywordLower = queryWord THEN Lit_1_0
  ELSE IF Includes(keywordLower, queryWord) THEN Lit_0_8
  ELSE IF Includes(queryWord, keywordLower) THEN Lit_0_7
  ELSE FuzzyContribution(calculateFuzzyMatch(keywordLower, queryWord))

\* What one keyword contributes to one query word, 0 when no rule applies
KeywordContribution(keyword, queryWord) ==
  ContributionOf(ToLowerCase(keyword), queryWord)

RECURSIVE BestMatch(_, _, _)
\* bestMatch after the first k keywords have been visited
BestMatch(keywords, queryWord, k) ==
  IF k = 0 THEN FZero
  ELSE FMax(BestMatch(keywords, queryWord, k - 1),
            KeywordContribution(keywords[k], queryWord))

\* if (bestMatch > 0) { totalMatches += bestMatch; matchedKeywords.push(...) }
AddWord(sofar, queryWord, bestMatch) ==
  IF FLess(FZero, bestMatch)
  THEN [total |-> FAdd(sofar.total, bestMatch), matches |-> Append(sofar.matches, queryWord)]
  ELSE sofar

RECURSIVE WordMatches(_, _, _)
\* totalMatches and matchedKeywords after the first k query words
WordMatches(keywords, queryWords, k) ==
  IF k = 0 THEN [total |-> FZero, matches |-> <<>>]
  ELSE AddWord(WordMatches(keywords, queryWords, k - 1), queryWords[k],
               BestMatch(keywords, queryWords[k], Len(keywords)))

\* totalMatches > 0 ? Math.min(0.85, 0.4 + (totalMatches / denom) * 0.45) : 0
KeywordScore(totalMatches, denom) ==
  IF FLess(FZero, totalMatches)
  THEN FMin(Lit_0_85, FAdd(Lit_0_4, FMul(FDivInt(totalMatches, denom), Lit_0_45)))
  ELSE FZero

KeywordResult(found, denom) ==
  [threw |-> FALSE, score |-> KeywordScore(found.total, denom), matches |-> found.matches]

NoResult == [threw |-> TRUE, score |-> FZero, matches |-> <<>>]

\* calculateKeywordMatches; threw is the TypeError of keywords.forEach on a
\* missing or non-array keywords field, or of toLowerCase on a non-string
calculateKeywordMatches(buzzword, queryWords) ==
  IF buzzword.kw # "array"
     \/ \E i \in 1..Len(buzzword.keywords) : buzzword.keywords[i] = NonString
  THEN NoResult
  ELSE KeywordResult(WordMatches(buzzword.keywords, queryWords, Len(queryWords)),
                     Max2(Len(queryWords), Len(buzzword.keywords)))

\* The object calculateRelevanceScore returns; threw reports an exception
\* escaping the call instead
Result(buzzword, threw, relevanceScore, matchType, matchedKeywords) ==
  [threw |-> threw,
   match |-> buzzword.phrase,
   translation |-> buzzword.translation,
   relevanceScore |-> relevanceScore,
   matchedKeywords |-> Dedup(matchedKeywords),
   category |-> buzzword.category,
   matchType |-> matchType]

\* Rule 5, reached with relevanceScore still 0
FuzzyRule(buzzword, normalizedQuery, fuzzyResult) ==
  IF FLess(Lit_0_3, fuzzyResult)
  THEN Result(buzzword, FALSE, FMul(fuzzyResult, Lit_0_6), "fuzzy", <<normalizedQuery>>)
  ELSE Result(buzzword, FALSE, FZero, "", <<>>)

\* Rule 4, then rule 5 when the keywords gave no score
KeywordRule(buzzword, phrase, normalizedQuery, keywordMatchResult) ==
  IF keywordMatchResult.threw THEN Result(buzzword, TRUE, FZero, "", <<>>)
  ELSE IF FLess(FZero, keywordMatchResult.score)
    THEN Result(buzzword, FALSE, keywordMatchResult.score, "keyword",
                keywordMatchResult.matches)
  ELSE FuzzyRule(buzzword, normalizedQuery, calculateFuzzyMatch(phrase, normalizedQuery))

\* The rules without rule 2
RelevanceOfWithoutContains(buzzword, phrase, normalizedQuery, queryWords) ==
  IF phrase = normalizedQuery
    THEN Result(buzzword, FALSE, Lit_1_0, "exact", <<normalizedQuery>>)
  ELSE IF Includes(normalizedQuery, phrase)
    THEN Result(buzzword, FALSE, Lit_0_9, "query_contains", <<phrase>>)
  ELSE KeywordRule(buzzword, phrase, normalizedQuery,
                   calculateKeywordMatches(buzzword, queryWords))

\* Rules 1-3 on the lower-cased phrase, else rules 4 and 5
RelevanceOf(buzzword, phrase, normalizedQuery, queryWords) ==
  IF phrase = normalizedQuery
    THEN Result(buzzword, FALSE, Lit_1_0, "exact", <<normalizedQuery>>)
  ELSE IF Includes(phrase, normalizedQuery)
    THEN Result(buzzword, FALSE, Lit_0_95, "phrase_contains", <<normalizedQuery>>)
  ELSE IF Includes(normalizedQuery, phrase)
    THEN Result(buzzword, FALSE, Lit_0_9, "query_contains", <<phrase>>)
  ELSE KeywordRule(buzzword, phrase, normalizedQuery,
                   calculateKeywordMatches(buzzword, queryWords))

\* calculateRelevanceScore
calculateRelevanceScore(buzzword, normalizedQuery, queryWords) ==
  RelevanceOf(buzzword, ToLowerCase(buzzword.phrase), normalizedQuery, queryWords)

-----------------------------------------------------------------------------
(* Ranker *)

\* this.buzzwords is [isArray, items]: isArray is false once the reference
\* no longer holds an array
Dictionary(items) == [isArray |-> TRUE, items |-> items]
Corrupted == [isArray |-> FALSE, items |-> <<>>]

\* text.includes(normalizedQuery) || queryWords.some(word => text.includes(word))
Hit(text, normalizedQuery, queryWords) ==
  \/ Includes(text, normalizedQuery)
  \/ \E w \in 1..Len(queryWords) : Includes(text, queryWords[w])

RECURSIVE KeywordsVerdict(_, _, _, _)
\* buzzword.keywords.some(...) from keyword k on: it stops at the first
\* keyword that matches ("keep") or is no string ("throw")
KeywordsVerdict(keywords, k, normalizedQuery, queryWords) ==
  IF k > Len(keywords) THEN "drop"
  ELSE IF keywords[k] = NonString THEN "throw"
  ELSE IF Hit(ToLowerCase(keywords[k]), normalizedQuery, queryWords) THEN "keep"
  ELSE KeywordsVerdict(keywords, k + 1, normalizedQuery, queryWords)

\* The callback of this.buzzwords.filter in searchWithFuzzyMatching:
\* "keep", "drop", or "throw" when evaluating it raises a TypeError
PreFilter(buzzword, normalizedQuery, queryWords) ==
  IF buzzword.shape # "object" \/ buzzword.phrase = <<>> THEN "drop"
  ELSE IF Hit(ToLowerCase(buzzword.phrase), normalizedQuery, queryWords) THEN "keep"
  ELSE IF buzzword.kw = "missing" THEN "drop"
  ELSE IF buzzword.kw = "notArray" THEN "throw"
  ELSE KeywordsVerdict(buzzword.keywords, 1, normalizedQuery, queryWords)

\* relevantBuzzwords
Relevant(items, normalizedQuery, queryWords) ==
  SelectSeq(items, LAMBDA buzzword :
              PreFilter(buzzword, normalizedQuery, queryWords) = "keep")

TopK == 10

\* A test that keeps every scored entry
QualifiesAnyScore(searchResult) == ~searchResult.threw

\* A threshold of 0.5 in place of 0.1
QualifiesAboveHalf(searchResult) ==
  ~searchResult.threw /\ FLess(Lit_0_5, searchResult.relevanceScore)

\* searchResult.relevanceScore > 0.1, for a call that returned
Qualifies(searchResult) ==
  ~searchResult.threw /\ FLess(Lit_0_1, searchResult.relevanceScore)

\* what results.push(searchResult) stores
Pushed(searchResult) ==
  [match |-> searchResult.match, translation |-> searchResult.translation,
   relevanceScore |-> searchResult.relevanceScore,
   matchedKeywords |-> searchResult.matchedKeywords,
   category |-> searchResult.category, matchType |-> searchResult.matchType]

PushedAll(kept) == [i \in 1..Len(kept) |-> Pushed(kept[i])]

\* The forEach over relevantBuzzwords: an entry whose scoring throws is
\* skipped, a result is kept when relevanceScore > 0.1
Qualifying(relevant, normalizedQuery, queryWords) ==
  PushedAll(SelectSeq(
    [i \in 1..Len(relevant) |->
       calculateRelevanceScore(relevant[i], normalizedQuery, queryWords)],
    Qualifies))

\* The comparator's decision once scoreDiff = b.relevanceScore - a.relevanceScore
CompareBy(a, b, scoreDiff) ==
  IF FLess(Lit_0_01, FAbs(scoreDiff))
    THEN (IF scoreDiff.neg THEN -1 ELSE 1)
  ELSE IF a.matchType = "exact" /\ b.matchType # "exact" THEN -1
  ELSE IF b.matchType = "exact" /\ a.matchType # "exact" THEN 1
  ELSE IF a.matchType = "phrase_contains" /\ b.matchType # "phrase_contains" THEN -1
  ELSE IF b.matchType = "phrase_contains" /\ a.matchType # "phrase_contains" THEN 1
  ELSE Len(a.match) - Len(b.match)

\* The comparator handed to sort: negative puts a first, positive b first
Compare(a, b) == CompareBy(a, b, FSub(b.relevanceScore, a.relevanceScore))

\* Array.prototype.sort with Compare, as a stable insertion sort: each
\* element moves in front of the elements before it that Compare puts after
\* it.  For a comparator that is a consistent ordering every engine returns
\* this list; otherwise the order is engine-defined.
SortResults(results) ==
  SortSeq(results, LAMBDA x, before : Compare(before, x) > 0)

\* .slice(0, 10)
Slice(seq, k) == SubSeq(seq, 1, Min2(Len(seq), k))

Thrown == [threw |-> TRUE, results |-> <<>>]

\* The same body with the cut taken before the sort
SearchWordsCutFirst(items, normalizedQuery, queryWords) ==
  IF queryWords = <<>> THEN [threw |-> FALSE, results |-> <<>>]
  ELSE IF \E i \in 1..Len(items) :
            PreFilter(items[i], normalizedQuery, queryWords) = "throw"
    THEN Thrown
  ELSE [threw |-> FALSE,
        results |-> SortResults(Slice(Qualifying(
                                  Relevant(items, normalizedQuery, queryWords),
                                  normalizedQuery, queryWords), TopK))]

\* The body of searchWithFuzzyMatching from the pre-filter on
SearchWords(items, normalizedQuery, queryWords) ==
  IF queryWords = <<>> THEN [threw |-> FALSE, results |-> <<>>]
  ELSE IF \E i \in 1..Len(items) :
            PreFilter(items[i], normalizedQuery, queryWords) = "throw"
    THEN Thrown
  ELSE [threw |-> FALSE,
        results |-> Slice(SortResults(Qualifying(
                            Relevant(items, normalizedQuery, queryWords),
                            normalizedQuery, queryWords)), TopK)]

SearchNormalized(items, normalizedQuery) ==
  SearchWords(items, normalizedQuery, SplitWords(normalizedQuery))

\* searchWithFuzzyMatching: threw is the exception it re-throws
searchWithFuzzyMatching(dict, query) ==
  IF query = <<>> \/ ~dict.isArray THEN Thrown
  ELSE SearchNormalized(dict.items, Trim(ToLowerCase(query)))

-----------------------------------------------------------------------------
(* The shipped dictionary *)

\* The array of src/buzzwords.js: phrase, translation, keywords and category
\* of each of its 86 entries, in file order
ShippedEntries ==
  <<
    \* "actionable insights": actionable, insights, useful, information, act
    Entry(<<97, 99, 116, 105, 111, 110, 97, 98, 108, 101, 32, 105, 110, 115, 105, 103, 104, 116, 115>>,
      "useful information you can act on",
      <<<<97, 99, 116, 105, 111, 110, 97, 98, 108, 101>>, <<105, 110, 115, 105, 103, 104, 116, 115>>, <<117, 115, 101, 102, 117, 108>>, <<105, 110, 102, 111, 114, 109, 97, 116, 105, 111, 110>>, <<97, 99, 116>>>>,
      "analysis"),
    \* "agile methodology": agile, methodology, flexible, iterative, scrum
    Entry(<<97, 103, 105, 108, 101, 32, 109, 101, 116, 104, 111, 100, 111, 108, 111, 103, 121>>,
      "flexible project management approach",
      <<<<97, 103, 105, 108, 101>>, <<109, 101, 116, 104, 111, 100, 111, 108, 111, 103, 121>>, <<102, 108, 101, 120, 105, 98, 108, 101>>, <<105, 116, 101, 114, 97, 116, 105, 118, 101>>, <<115, 99, 114, 117, 109>>>>,
      "methodology"),
    \* "alignment": alignment, agreement, goals, direction, sync
    Entry(<<97, 108, 105, 103, 110, 109, 101, 110, 116>>,
      "agreement on goals and direction",
      <<<<97, 108, 105, 103, 110, 109, 101, 110, 116>>, <<97, 103, 114, 101, 101, 109, 101, 110, 116>>, <<103, 111, 97, 108, 115>>, <<100, 105, 114, 101, 99, 116, 105, 111, 110>>, <<115, 121, 110, 99>>>>,
      "collaboration"),
    \* "at the end of the day": end, day, ultimately, final, conclusion
    Entry(<<97, 116, 32, 116, 104, 101, 32, 101, 110, 100, 32, 111, 102, 32, 116, 104, 101, 32, 100, 97, 121>>,
      "ultimately or when everything is considered",
      <<<<101, 110, 100>>, <<100, 97, 121>>, <<117, 108, 116, 105, 109, 97, 116, 101, 108, 121>>, <<102, 105, 110, 97, 108>>, <<99, 111, 110, 99, 108, 117, 115, 105, 111, 110>>>>,
      "summary"),
    \* "bandwidth": bandwidth, time, capacity, availability
    Entry(<<98, 97, 110, 100, 119, 105, 100, 116, 104>>,
      "available time or capacity",
      <<<<98, 97, 110, 100, 119, 105, 100, 116, 104>>, <<116, 105, 109, 101>>, <<99, 97, 112, 97, 99, 105, 116, 121>>, <<97, 118, 97, 105, 108, 97, 98, 105, 108, 105, 116, 121>>>>,
      "resources"),
    \* "best practice": best, practice, effective, standard, optimal
    Entry(<<98, 101, 115, 116, 32, 112, 114, 97, 99, 116, 105, 99, 101>>,
      "the most effective way to do something",
      <<<<98, 101, 115, 116>>, <<112, 114, 97, 99, 116, 105, 99, 101>>, <<101, 102, 102, 101, 99, 116, 105, 118, 101>>, <<115, 116, 97, 110, 100, 97, 114, 100>>, <<111, 112, 116, 105, 109, 97, 108>>>>,
      "methodology"),
    \* "big picture": big, picture, overall, perspective, strategic
    Entry(<<98, 105, 103, 32, 112, 105, 99, 116, 117, 114, 101>>,
      "overall view or long-term perspective",
      <<<<98, 105, 103>>, <<112, 105, 99, 116, 117, 114, 101>>, <<111, 118, 101, 114, 97, 108, 108>>, <<112, 101, 114, 115, 112, 101, 99, 116, 105, 118, 101>>, <<115, 116, 114, 97, 116, 101, 103, 105, 99>>>>,
      "perspective"),
    \* "bleeding edge": bleeding, edge, latest, technology, cutting
    Entry(<<98, 108, 101, 101, 100, 105, 110, 103, 32, 101, 100, 103, 101>>,
      "the very latest technology or innovation",
      <<<<98, 108, 101, 101, 100, 105, 110, 103>>, <<101, 100, 103, 101>>, <<108, 97, 116, 101, 115, 116>>, <<116, 101, 99, 104, 110, 111, 108, 111, 103, 121>>, <<99, 117, 116, 116, 105, 110, 103>>>>,
      "innovation"),
    \* "blue sky thinking": blue, sky, thinking, creative, unconstrained
    Entry(<<98, 108, 117, 101, 32, 115, 107, 121, 32, 116, 104, 105, 110, 107, 105, 110, 103>>,
      "creative thinking without constraints",
      <<<<98, 108, 117, 101>>, <<115, 107, 121>>, <<116, 104, 105, 110, 107, 105, 110, 103>>, <<99, 114, 101, 97, 116, 105, 118, 101>>, <<117, 110, 99, 111, 110, 115, 116, 114, 97, 105, 110, 101, 100>>>>,
      "innovation"),
    \* "boil the ocean": boil, ocean, impossible, complex, overwhelming
    Entry(<<98, 111, 105, 108, 32, 116, 104, 101, 32, 111, 99, 101, 97, 110>>,
      "attempt an impossible or overly complex task",
      <<<<98, 111, 105, 108>>, <<111, 99, 101, 97, 110>>, <<105, 109, 112, 111, 115, 115, 105, 98, 108, 101>>, <<99, 111, 109, 112, 108, 101, 120>>, <<111, 118, 101, 114, 119, 104, 101, 108, 109, 105, 110, 103>>>>,
      "scope"),
    \* "buy-in": buy, in, agreement, support, approval
    Entry(<<98, 117, 121, 45, 105, 110>>,
      "agreement and support from others",
      <<<<98, 117, 121>>, <<105, 110>>, <<97, 103, 114, 101, 101, 109, 101, 110, 116>>, <<115, 117, 112, 112, 111, 114, 116>>, <<97, 112, 112, 114, 111, 118, 97, 108>>>>,
      "approval"),
    \* "circle back": circle, back, later, discuss, return
    Entry(<<99, 105, 114, 99, 108, 101, 32, 98, 97, 99, 107>>,
      "discuss this later",
      <<<<99, 105, 114, 99, 108, 101>>, <<98, 97, 99, 107>>, <<108, 97, 116, 101, 114>>, <<100, 105, 115, 99, 117, 115, 115>>, <<114, 101, 116, 117, 114, 110>>>>,
      "communication"),
    \* "circle the wagons": circle, wagons, defend, protect, criticism
    Entry(<<99, 105, 114, 99, 108, 101, 32, 116, 104, 101, 32, 119, 97, 103, 111, 110, 115>>,
      "defend against criticism or attack",
      <<<<99, 105, 114, 99, 108, 101>>, <<119, 97, 103, 111, 110, 115>>, <<100, 101, 102, 101, 110, 100>>, <<112, 114, 111, 116, 101, 99, 116>>, <<99, 114, 105, 116, 105, 99, 105, 115, 109>>>>,
      "defense"),
    \* "core competency": core, competency, strength, expertise, skill
    Entry(<<99, 111, 114, 101, 32, 99, 111, 109, 112, 101, 116, 101, 110, 99, 121>>,
      "main strength or expertise",
      <<<<99, 111, 114, 101>>, <<99, 111, 109, 112, 101, 116, 101, 110, 99, 121>>, <<115, 116, 114, 101, 110, 103, 116, 104>>, <<101, 120, 112, 101, 114, 116, 105, 115, 101>>, <<115, 107, 105, 108, 108>>>>,
      "capability"),
    \* "customer-centric": customer, centric, focused, needs, oriented
    Entry(<<99, 117, 115, 116, 111, 109, 101, 114, 45, 99, 101, 110, 116, 114, 105, 99>>,
      "focused on customer needs",
      <<<<99, 117, 115, 116, 111, 109, 101, 114>>, <<99, 101, 110, 116, 114, 105, 99>>, <<102, 111, 99, 117, 115, 101, 100>>, <<110, 101, 101, 100, 115>>, <<111, 114, 105, 101, 110, 116, 101, 100>>>>,
      "strategy"),
    \* "data-driven": data, driven, analysis, metrics, evidence
    Entry(<<100, 97, 116, 97, 45, 100, 114, 105, 118, 101, 110>>,
      "making decisions based on data analysis",
      <<<<100, 97, 116, 97>>, <<100, 114, 105, 118, 101, 110>>, <<97, 110, 97, 108, 121, 115, 105, 115>>, <<109, 101, 116, 114, 105, 99, 115>>, <<101, 118, 105, 100, 101, 110, 99, 101>>>>,
      "methodology"),
    \* "deep dive": deep, dive, analysis, thorough, investigate
    Entry(<<100, 101, 101, 112, 32, 100, 105, 118, 101>>,
      "thorough analysis or investigation",
      <<<<100, 101, 101, 112>>, <<100, 105, 118, 101>>, <<97, 110, 97, 108, 121, 115, 105, 115>>, <<116, 104, 111, 114, 111, 117, 103, 104>>, <<105, 110, 118, 101, 115, 116, 105, 103, 97, 116, 101>>>>,
      "analysis"),
    \* "deliverable": deliverable, completed, provided, output
    Entry(<<100, 101, 108, 105, 118, 101, 114, 97, 98, 108, 101>>,
      "something that must be completed or provided",
      <<<<100, 101, 108, 105, 118, 101, 114, 97, 98, 108, 101>>, <<99, 111, 109, 112, 108, 101, 116, 101, 100>>, <<112, 114, 111, 118, 105, 100, 101, 100>>, <<111, 117, 116, 112, 117, 116>>>>,
      "output"),
    \* "digital transformation": digital, transformation, technology, modernization
    Entry(<<100, 105, 103, 105, 116, 97, 108, 32, 116, 114, 97, 110, 115, 102, 111, 114, 109, 97, 116, 105, 111, 110>>,
      "adopting digital technology across business",
      <<<<100, 105, 103, 105, 116, 97, 108>>, <<116, 114, 97, 110, 115, 102, 111, 114, 109, 97, 116, 105, 111, 110>>, <<116, 101, 99, 104, 110, 111, 108, 111, 103, 121>>, <<109, 111, 100, 101, 114, 110, 105, 122, 97, 116, 105, 111, 110>>>>,
      "technology"),
    \* "disruptive innovation": disruptive, innovation, breakthrough, revolutionary
    Entry(<<100, 105, 115, 114, 117, 112, 116, 105, 118, 101, 32, 105, 110, 110, 111, 118, 97, 116, 105, 111, 110>>,
      "innovation that creates new markets",
      <<<<100, 105, 115, 114, 117, 112, 116, 105, 118, 101>>, <<105, 110, 110, 111, 118, 97, 116, 105, 111, 110>>, <<98, 114, 101, 97, 107, 116, 104, 114, 111, 117, 103, 104>>, <<114, 101, 118, 111, 108, 117, 116, 105, 111, 110, 97, 114, 121>>>>,
      "innovation"),
    \* "double-click": double, click, examine, closer, detail
    Entry(<<100, 111, 117, 98, 108, 101, 45, 99, 108, 105, 99, 107>>,
      "examine something more closely",
      <<<<100, 111, 117, 98, 108, 101>>, <<99, 108, 105, 99, 107>>, <<101, 120, 97, 109, 105, 110, 101>>, <<99, 108, 111, 115, 101, 114>>, <<100, 101, 116, 97, 105, 108>>>>,
      "analysis"),
    \* "drinking the Kool-Aid": drinking, kool, aid, accepting, beliefs
    Entry(<<100, 114, 105, 110, 107, 105, 110, 103, 32, 116, 104, 101, 32, 75, 111, 111, 108, 45, 65, 105, 100>>,
      "blindly accepting company beliefs",
      <<<<100, 114, 105, 110, 107, 105, 110, 103>>, <<107, 111, 111, 108>>, <<97, 105, 100>>, <<97, 99, 99, 101, 112, 116, 105, 110, 103>>, <<98, 101, 108, 105, 101, 102, 115>>>>,
      "culture"),
    \* "drill down": drill, down, detail, examine, analyze
    Entry(<<100, 114, 105, 108, 108, 32, 100, 111, 119, 110>>,
      "examine something in more detail",
      <<<<100, 114, 105, 108, 108>>, <<100, 111, 119, 110>>, <<100, 101, 116, 97, 105, 108>>, <<101, 120, 97, 109, 105, 110, 101>>, <<97, 110, 97, 108, 121, 122, 101>>>>,
      "analysis"),
    \* "ecosystem": ecosystem, network, connected, related
    Entry(<<101, 99, 111, 115, 121, 115, 116, 101, 109>>,
      "interconnected network of related things",
      <<<<101, 99, 111, 115, 121, 115, 116, 101, 109>>, <<110, 101, 116, 119, 111, 114, 107>>, <<99, 111, 110, 110, 101, 99, 116, 101, 100>>, <<114, 101, 108, 97, 116, 101, 100>>>>,
      "system"),
    \* "elephant in the room": elephant, room, obvious, problem, ignore
    Entry(<<101, 108, 101, 112, 104, 97, 110, 116, 32, 105, 110, 32, 116, 104, 101, 32, 114, 111, 111, 109>>,
      "obvious problem everyone ignores",
      <<<<101, 108, 101, 112, 104, 97, 110, 116>>, <<114, 111, 111, 109>>, <<111, 98, 118, 105, 111, 117, 115>>, <<112, 114, 111, 98, 108, 101, 109>>, <<105, 103, 110, 111, 114, 101>>>>,
      "problems"),
    \* "empower": empower, authority, confidence, enable, authorize
    Entry(<<101, 109, 112, 111, 119, 101, 114>>,
      "give authority or confidence to act",
      <<<<101, 109, 112, 111, 119, 101, 114>>, <<97, 117, 116, 104, 111, 114, 105, 116, 121>>, <<99, 111, 110, 102, 105, 100, 101, 110, 99, 101>>, <<101, 110, 97, 98, 108, 101>>, <<97, 117, 116, 104, 111, 114, 105, 122, 101>>>>,
      "leadership"),
    \* "enabler": enabler, facilitator, catalyst, support, foundation
    Entry(<<101, 110, 97, 98, 108, 101, 114>>,
      "something/someone that makes other things possible",
      <<<<101, 110, 97, 98, 108, 101, 114>>, <<102, 97, 99, 105, 108, 105, 116, 97, 116, 111, 114>>, <<99, 97, 116, 97, 108, 121, 115, 116>>, <<115, 117, 112, 112, 111, 114, 116>>, <<102, 111, 117, 110, 100, 97, 116, 105, 111, 110>>>>,
      "support"),
    \* "end-to-end": end, to, end, complete, comprehensive, full
    Entry(<<101, 110, 100, 45, 116, 111, 45, 101, 110, 100>>,
      "covering the complete process",
      <<<<101, 110, 100>>, <<116, 111>>, <<101, 110, 100>>, <<99, 111, 109, 112, 108, 101, 116, 101>>, <<99, 111, 109, 112, 114, 101, 104, 101, 110, 115, 105, 118, 101>>, <<102, 117, 108, 108>>>>,
      "scope"),
    \* "evangelize": evangelize, promote, advocate, champion, spread
    Entry(<<101, 118, 97, 110, 103, 101, 108, 105, 122, 101>>,
      "promote enthusiastically",
      <<<<101, 118, 97, 110, 103, 101, 108, 105, 122, 101>>, <<112, 114, 111, 109, 111, 116, 101>>, <<97, 100, 118, 111, 99, 97, 116, 101>>, <<99, 104, 97, 109, 112, 105, 111, 110>>, <<115, 112, 114, 101, 97, 100>>>>,
      "promotion"),
    \* "facilitate": facilitate, help, enable, assist
    Entry(<<102, 97, 99, 105, 108, 105, 116, 97, 116, 101>>,
      "help make something happen or easier",
      <<<<102, 97, 99, 105, 108, 105, 116, 97, 116, 101>>, <<104, 101, 108, 112>>, <<101, 110, 97, 98, 108, 101>>, <<97, 115, 115, 105, 115, 116>>>>,
      "support"),
    \* "fire drill": fire, drill, urgent, unnecessary, panic
    Entry(<<102, 105, 114, 101, 32, 100, 114, 105, 108, 108>>,
      "urgent but unnecessary activity",
      <<<<102, 105, 114, 101>>, <<100, 114, 105, 108, 108>>, <<117, 114, 103, 101, 110, 116>>, <<117, 110, 110, 101, 99, 101, 115, 115, 97, 114, 121>>, <<112, 97, 110, 105, 99>>>>,
      "urgency"),
    \* "game changer": game, changer, significant, alter, transform
    Entry(<<103, 97, 109, 101, 32, 99, 104, 97, 110, 103, 101, 114>>,
      "something that significantly alters the situation",
      <<<<103, 97, 109, 101>>, <<99, 104, 97, 110, 103, 101, 114>>, <<115, 105, 103, 110, 105, 102, 105, 99, 97, 110, 116>>, <<97, 108, 116, 101, 114>>, <<116, 114, 97, 110, 115, 102, 111, 114, 109>>>>,
      "impact"),
    \* "get our ducks in a row": ducks, row, organize, prepare, ready
    Entry(<<103, 101, 116, 32, 111, 117, 114, 32, 100, 117, 99, 107, 115, 32, 105, 110, 32, 97, 32, 114, 111, 119>>,
      "organize and prepare properly",
      <<<<100, 117, 99, 107, 115>>, <<114, 111, 119>>, <<111, 114, 103, 97, 110, 105, 122, 101>>, <<112, 114, 101, 112, 97, 114, 101>>, <<114, 101, 97, 100, 121>>>>,
      "preparation"),
    \* "granular": granular, detailed, specific, fine
    Entry(<<103, 114, 97, 110, 117, 108, 97, 114>>,
      "very detailed or specific",
      <<<<103, 114, 97, 110, 117, 108, 97, 114>>, <<100, 101, 116, 97, 105, 108, 101, 100>>, <<115, 112, 101, 99, 105, 102, 105, 99>>, <<102, 105, 110, 101>>>>,
      "detail"),
    \* "growth hacking": growth, hacking, marketing, rapid, creative
    Entry(<<103, 114, 111, 119, 116, 104, 32, 104, 97, 99, 107, 105, 110, 103>>,
      "creative marketing for rapid growth",
      <<<<103, 114, 111, 119, 116, 104>>, <<104, 97, 99, 107, 105, 110, 103>>, <<109, 97, 114, 107, 101, 116, 105, 110, 103>>, <<114, 97, 112, 105, 100>>, <<99, 114, 101, 97, 116, 105, 118, 101>>>>,
      "marketing"),
    \* "hard stop": hard, stop, deadline, absolute, firm
    Entry(<<104, 97, 114, 100, 32, 115, 116, 111, 112>>,
      "absolute deadline or end time",
      <<<<104, 97, 114, 100>>, <<115, 116, 111, 112>>, <<100, 101, 97, 100, 108, 105, 110, 101>>, <<97, 98, 115, 111, 108, 117, 116, 101>>, <<102, 105, 114, 109>>>>,
      "time"),
    \* "herding cats": herding, cats, difficult, manage, chaos
    Entry(<<104, 101, 114, 100, 105, 110, 103, 32, 99, 97, 116, 115>>,
      "managing difficult or uncooperative people",
      <<<<104, 101, 114, 100, 105, 110, 103>>, <<99, 97, 116, 115>>, <<100, 105, 102, 102, 105, 99, 117, 108, 116>>, <<109, 97, 110, 97, 103, 101>>, <<99, 104, 97, 111, 115>>>>,
      "management"),
    \* "hit the ground running": hit, ground, running, start, immediately
    Entry(<<104, 105, 116, 32, 116, 104, 101, 32, 103, 114, 111, 117, 110, 100, 32, 114, 117, 110, 110, 105, 110, 103>>,
      "start working effectively immediately",
      <<<<104, 105, 116>>, <<103, 114, 111, 117, 110, 100>>, <<114, 117, 110, 110, 105, 110, 103>>, <<115, 116, 97, 114, 116>>, <<105, 109, 109, 101, 100, 105, 97, 116, 101, 108, 121>>>>,
      "productivity"),
    \* "holistic": holistic, whole, complete, comprehensive
    Entry(<<104, 111, 108, 105, 115, 116, 105, 99>>,
      "considering the whole picture",
      <<<<104, 111, 108, 105, 115, 116, 105, 99>>, <<119, 104, 111, 108, 101>>, <<99, 111, 109, 112, 108, 101, 116, 101>>, <<99, 111, 109, 112, 114, 101, 104, 101, 110, 115, 105, 118, 101>>>>,
      "perspective"),
    \* "ideate": ideate, brainstorm, generate, ideas, create
    Entry(<<105, 100, 101, 97, 116, 101>>,
      "brainstorm or generate ideas",
      <<<<105, 100, 101, 97, 116, 101>>, <<98, 114, 97, 105, 110, 115, 116, 111, 114, 109>>, <<103, 101, 110, 101, 114, 97, 116, 101>>, <<105, 100, 101, 97, 115>>, <<99, 114, 101, 97, 116, 101>>>>,
      "innovation"),
    \* "impactful": impactful, effective, influential, powerful
    Entry(<<105, 109, 112, 97, 99, 116, 102, 117, 108>>,
      "having a strong effect or influence",
      <<<<105, 109, 112, 97, 99, 116, 102, 117, 108>>, <<101, 102, 102, 101, 99, 116, 105, 118, 101>>, <<105, 110, 102, 108, 117, 101, 110, 116, 105, 97, 108>>, <<112, 111, 119, 101, 114, 102, 117, 108>>>>,
      "impact"),
    \* "in the weeds": weeds, detail, lost, overwhelmed
    Entry(<<105, 110, 32, 116, 104, 101, 32, 119, 101, 101, 100, 115>>,
      "lost in too much detail",
      <<<<119, 101, 101, 100, 115>>, <<100, 101, 116, 97, 105, 108>>, <<108, 111, 115, 116>>, <<111, 118, 101, 114, 119, 104, 101, 108, 109, 101, 100>>>>,
      "focus"),
    \* "iterate": iterate, repeat, improve, refine
    Entry(<<105, 116, 101, 114, 97, 116, 101>>,
      "repeat and improve gradually",
      <<<<105, 116, 101, 114, 97, 116, 101>>, <<114, 101, 112, 101, 97, 116>>, <<105, 109, 112, 114, 111, 118, 101>>, <<114, 101, 102, 105, 110, 101>>>>,
      "process"),
    \* "jump the shark": jump, shark, decline, quality, peak
    Entry(<<106, 117, 109, 112, 32, 116, 104, 101, 32, 115, 104, 97, 114, 107>>,
      "decline in quality after peak success",
      <<<<106, 117, 109, 112>>, <<115, 104, 97, 114, 107>>, <<100, 101, 99, 108, 105, 110, 101>>, <<113, 117, 97, 108, 105, 116, 121>>, <<112, 101, 97, 107>>>>,
      "decline"),
    \* "keep me in the loop": keep, loop, informed, updated, communication
    Entry(<<107, 101, 101, 112, 32, 109, 101, 32, 105, 110, 32, 116, 104, 101, 32, 108, 111, 111, 112>>,
      "keep me informed",
      <<<<107, 101, 101, 112>>, <<108, 111, 111, 112>>, <<105, 110, 102, 111, 114, 109, 101, 100>>, <<117, 112, 100, 97, 116, 101, 100>>, <<99, 111, 109, 109, 117, 110, 105, 99, 97, 116, 105, 111, 110>>>>,
      "communication"),
    \* "key performance indicator": key, performance, indicator, kpi, metric, measure
    Entry(<<107, 101, 121, 32, 112, 101, 114, 102, 111, 114, 109, 97, 110, 99, 101, 32, 105, 110, 100, 105, 99, 97, 116, 111, 114>>,
      "metric used to measure success",
      <<<<107, 101, 121>>, <<112, 101, 114, 102, 111, 114, 109, 97, 110, 99, 101>>, <<105, 110, 100, 105, 99, 97, 116, 111, 114>>, <<107, 112, 105>>, <<109, 101, 116, 114, 105, 99>>, <<109, 101, 97, 115, 117, 114, 101>>>>,
      "metrics"),
    \* "key stakeholder": key, stakeholder, important, affected
    Entry(<<107, 101, 121, 32, 115, 116, 97, 107, 101, 104, 111, 108, 100, 101, 114>>,
      "important person affected by decisions",
      <<<<107, 101, 121>>, <<115, 116, 97, 107, 101, 104, 111, 108, 100, 101, 114>>, <<105, 109, 112, 111, 114, 116, 97, 110, 116>>, <<97, 102, 102, 101, 99, 116, 101, 100>>>>,
      "people"),
    \* "lean methodology": lean, methodology, waste, efficiency, streamline
    Entry(<<108, 101, 97, 110, 32, 109, 101, 116, 104, 111, 100, 111, 108, 111, 103, 121>>,
      "eliminating waste to improve efficiency",
      <<<<108, 101, 97, 110>>, <<109, 101, 116, 104, 111, 100, 111, 108, 111, 103, 121>>, <<119, 97, 115, 116, 101>>, <<101, 102, 102, 105, 99, 105, 101, 110, 99, 121>>, <<115, 116, 114, 101, 97, 109, 108, 105, 110, 101>>>>,
      "methodology"),
    \* "let's take this offline": take, offline, private, later, separate
    Entry(<<108, 101, 116, 39, 115, 32, 116, 97, 107, 101, 32, 116, 104, 105, 115, 32, 111, 102, 102, 108, 105, 110, 101>>,
      "discuss this privately or later",
      <<<<116, 97, 107, 101>>, <<111, 102, 102, 108, 105, 110, 101>>, <<112, 114, 105, 118, 97, 116, 101>>, <<108, 97, 116, 101, 114>>, <<115, 101, 112, 97, 114, 97, 116, 101>>>>,
      "communication"),
    \* "leverage": leverage, use, advantage, utilize
    Entry(<<108, 101, 118, 101, 114, 97, 103, 101>>,
      "use or take advantage of",
      <<<<108, 101, 118, 101, 114, 97, 103, 101>>, <<117, 115, 101>>, <<97, 100, 118, 97, 110, 116, 97, 103, 101>>, <<117, 116, 105, 108, 105, 122, 101>>>>,
      "strategy"),
    \* "low hanging fruit": low, hanging, fruit, easy, obvious, simple
    Entry(<<108, 111, 119, 32, 104, 97, 110, 103, 105, 110, 103, 32, 102, 114, 117, 105, 116>>,
      "easy tasks or obvious opportunities",
      <<<<108, 111, 119>>, <<104, 97, 110, 103, 105, 110, 103>>, <<102, 114, 117, 105, 116>>, <<101, 97, 115, 121>>, <<111, 98, 118, 105, 111, 117, 115>>, <<115, 105, 109, 112, 108, 101>>>>,
      "productivity"),
    \* "must win battle": must, win, battle, critical, essential, priority
    Entry(<<109, 117, 115, 116, 32, 119, 105, 110, 32, 98, 97, 116, 116, 108, 101>>,
      "critical initiative that cannot be allowed to fail",
      <<<<109, 117, 115, 116>>, <<119, 105, 110>>, <<98, 97, 116, 116, 108, 101>>, <<99, 114, 105, 116, 105, 99, 97, 108>>, <<101, 115, 115, 101, 110, 116, 105, 97, 108>>, <<112, 114, 105, 111, 114, 105, 116, 121>>>>,
      "strategy"),
    \* "mindshare": mindshare, awareness, attention, brand
    Entry(<<109, 105, 110, 100, 115, 104, 97, 114, 101>>,
      "how much people think about your brand",
      <<<<109, 105, 110, 100, 115, 104, 97, 114, 101>>, <<97, 119, 97, 114, 101, 110, 101, 115, 115>>, <<97, 116, 116, 101, 110, 116, 105, 111, 110>>, <<98, 114, 97, 110, 100>>>>,
      "marketing"),
    \* "minimum viable product": minimum, viable, product, mvp, basic, core
    Entry(<<109, 105, 110, 105, 109, 117, 109, 32, 118, 105, 97, 98, 108, 101, 32, 112, 114, 111, 100, 117, 99, 116>>,
      "basic version with core features",
      <<<<109, 105, 110, 105, 109, 117, 109>>, <<118, 105, 97, 98, 108, 101>>, <<112, 114, 111, 100, 117, 99, 116>>, <<109, 118, 112>>, <<98, 97, 115, 105, 99>>, <<99, 111, 114, 101>>>>,
      "development"),
    \* "move the needle": move, needle, impact, significant, change
    Entry(<<109, 111, 118, 101, 32, 116, 104, 101, 32, 110, 101, 101, 100, 108, 101>>,
      "make a significant impact",
      <<<<109, 111, 118, 101>>, <<110, 101, 101, 100, 108, 101>>, <<105, 109, 112, 97, 99, 116>>, <<115, 105, 103, 110, 105, 102, 105, 99, 97, 110, 116>>, <<99, 104, 97, 110, 103, 101>>>>,
      "impact"),
    \* "net-net": net, bottom, line, result, conclusion
    Entry(<<110, 101, 116, 45, 110, 101, 116>>,
      "the bottom line or final result",
      <<<<110, 101, 116>>, <<98, 111, 116, 116, 111, 109>>, <<108, 105, 110, 101>>, <<114, 101, 115, 117, 108, 116>>, <<99, 111, 110, 99, 108, 117, 115, 105, 111, 110>>>>,
      "summary"),
    \* "north star": north, star, guiding, principle, goal
    Entry(<<110, 111, 114, 116, 104, 32, 115, 116, 97, 114>>,
      "guiding principle or ultimate goal",
      <<<<110, 111, 114, 116, 104>>, <<115, 116, 97, 114>>, <<103, 117, 105, 100, 105, 110, 103>>, <<112, 114, 105, 110, 99, 105, 112, 108, 101>>, <<103, 111, 97, 108>>>>,
      "strategy"),
    \* "on my radar": radar, aware, monitoring, tracking
    Entry(<<111, 110, 32, 109, 121, 32, 114, 97, 100, 97, 114>>,
      "something I'm aware of or monitoring",
      <<<<114, 97, 100, 97, 114>>, <<97, 119, 97, 114, 101>>, <<109, 111, 110, 105, 116, 111, 114, 105, 110, 103>>, <<116, 114, 97, 99, 107, 105, 110, 103>>>>,
      "awareness"),
    \* "optimize": optimize, effective, improve, enhance
    Entry(<<111, 112, 116, 105, 109, 105, 122, 101>>,
      "make as effective as possible",
      <<<<111, 112, 116, 105, 109, 105, 122, 101>>, <<101, 102, 102, 101, 99, 116, 105, 118, 101>>, <<105, 109, 112, 114, 111, 118, 101>>, <<101, 110, 104, 97, 110, 99, 101>>>>,
      "improvement"),
    \* "out of pocket": out, pocket, unavailable, unreachable, away
    Entry(<<111, 117, 116, 32, 111, 102, 32, 112, 111, 99, 107, 101, 116>>,
      "unavailable or unreachable",
      <<<<111, 117, 116>>, <<112, 111, 99, 107, 101, 116>>, <<117, 110, 97, 118, 97, 105, 108, 97, 98, 108, 101>>, <<117, 110, 114, 101, 97, 99, 104, 97, 98, 108, 101>>, <<97, 119, 97, 121>>>>,
      "availability"),
    \* "paradigm shift": paradigm, shift, fundamental, change
    Entry(<<112, 97, 114, 97, 100, 105, 103, 109, 32, 115, 104, 105, 102, 116>>,
      "fundamental change in approach",
      <<<<112, 97, 114, 97, 100, 105, 103, 109>>, <<115, 104, 105, 102, 116>>, <<102, 117, 110, 100, 97, 109, 101, 110, 116, 97, 108>>, <<99, 104, 97, 110, 103, 101>>>>,
      "change"),
    \* "pivot": pivot, change, direction, strategy, shift
    Entry(<<112, 105, 118, 111, 116>>,
      "change direction or strategy",
      <<<<112, 105, 118, 111, 116>>, <<99, 104, 97, 110, 103, 101>>, <<100, 105, 114, 101, 99, 116, 105, 111, 110>>, <<115, 116, 114, 97, 116, 101, 103, 121>>, <<115, 104, 105, 102, 116>>>>,
      "strategy"),
    \* "proof of concept": proof, concept, demonstration, feasibility, test
    Entry(<<112, 114, 111, 111, 102, 32, 111, 102, 32, 99, 111, 110, 99, 101, 112, 116>>,
      "demonstration that an idea works",
      <<<<112, 114, 111, 111, 102>>, <<99, 111, 110, 99, 101, 112, 116>>, <<100, 101, 109, 111, 110, 115, 116, 114, 97, 116, 105, 111, 110>>, <<102, 101, 97, 115, 105, 98, 105, 108, 105, 116, 121>>, <<116, 101, 115, 116>>>>,
      "validation"),
    \* "push the envelope": push, envelope, limits, test, boundaries
    Entry(<<112, 117, 115, 104, 32, 116, 104, 101, 32, 101, 110, 118, 101, 108, 111, 112, 101>>,
      "test limits or try something new",
      <<<<112, 117, 115, 104>>, <<101, 110, 118, 101, 108, 111, 112, 101>>, <<108, 105, 109, 105, 116, 115>>, <<116, 101, 115, 116>>, <<98, 111, 117, 110, 100, 97, 114, 105, 101, 115>>>>,
      "innovation"),
    \* "quick win": quick, win, easy, immediate, fast
    Entry(<<113, 117, 105, 99, 107, 32, 119, 105, 110>>,
      "easy achievement with immediate results",
      <<<<113, 117, 105, 99, 107>>, <<119, 105, 110>>, <<101, 97, 115, 121>>, <<105, 109, 109, 101, 100, 105, 97, 116, 101>>, <<102, 97, 115, 116>>>>,
      "productivity"),
    \* "rightsizing": rightsizing, adjusting, appropriate, size
    Entry(<<114, 105, 103, 104, 116, 115, 105, 122, 105, 110, 103>>,
      "adjusting to the appropriate size",
      <<<<114, 105, 103, 104, 116, 115, 105, 122, 105, 110, 103>>, <<97, 100, 106, 117, 115, 116, 105, 110, 103>>, <<97, 112, 112, 114, 111, 112, 114, 105, 97, 116, 101>>, <<115, 105, 122, 101>>>>,
      "adjustment"),
    \* "run it up the flagpole": run, flagpole, test, idea, feedback
    Entry(<<114, 117, 110, 32, 105, 116, 32, 117, 112, 32, 116, 104, 101, 32, 102, 108, 97, 103, 112, 111, 108, 101>>,
      "test an idea with others",
      <<<<114, 117, 110>>, <<102, 108, 97, 103, 112, 111, 108, 101>>, <<116, 101, 115, 116>>, <<105, 100, 101, 97>>, <<102, 101, 101, 100, 98, 97, 99, 107>>>>,
      "validation"),
    \* "scalable": scalable, grow, expand, flexible
    Entry(<<115, 99, 97, 108, 97, 98, 108, 101>>,
      "able to grow or expand easily",
      <<<<115, 99, 97, 108, 97, 98, 108, 101>>, <<103, 114, 111, 119>>, <<101, 120, 112, 97, 110, 100>>, <<102, 108, 101, 120, 105, 98, 108, 101>>>>,
      "growth"),
    \* "seamless": seamless, smooth, problems, easy
    Entry(<<115, 101, 97, 109, 108, 101, 115, 115>>,
      "smooth and without problems",
      <<<<115, 101, 97, 109, 108, 101, 115, 115>>, <<115, 109, 111, 111, 116, 104>>, <<112, 114, 111, 98, 108, 101, 109, 115>>, <<101, 97, 115, 121>>>>,
      "quality"),
    \* "solutioning": solutioning, developing, solutions, problem, solving
    Entry(<<115, 111, 108, 117, 116, 105, 111, 110, 105, 110, 103>>,
      "developing solutions",
      <<<<115, 111, 108, 117, 116, 105, 111, 110, 105, 110, 103>>, <<100, 101, 118, 101, 108, 111, 112, 105, 110, 103>>, <<115, 111, 108, 117, 116, 105, 111, 110, 115>>, <<112, 114, 111, 98, 108, 101, 109>>, <<115, 111, 108, 118, 105, 110, 103>>>>,
      "problem-solving"),
    \* "streamline": streamline, efficient, simpler, optimize
    Entry(<<115, 116, 114, 101, 97, 109, 108, 105, 110, 101>>,
      "make more efficient or simpler",
      <<<<115, 116, 114, 101, 97, 109, 108, 105, 110, 101>>, <<101, 102, 102, 105, 99, 105, 101, 110, 116>>, <<115, 105, 109, 112, 108, 101, 114>>, <<111, 112, 116, 105, 109, 105, 122, 101>>>>,
      "efficiency"),
    \* "synergy": synergy, together, collaboration, teamwork
    Entry(<<115, 121, 110, 101, 114, 103, 121>>,
      "working together effectively",
      <<<<115, 121, 110, 101, 114, 103, 121>>, <<116, 111, 103, 101, 116, 104, 101, 114>>, <<99, 111, 108, 108, 97, 98, 111, 114, 97, 116, 105, 111, 110>>, <<116, 101, 97, 109, 119, 111, 114, 107>>>>,
      "collaboration"),
    \* "table this": table, postpone, later, delay
    Entry(<<116, 97, 98, 108, 101, 32, 116, 104, 105, 115>>,
      "postpone or set aside for later",
      <<<<116, 97, 98, 108, 101>>, <<112, 111, 115, 116, 112, 111, 110, 101>>, <<108, 97, 116, 101, 114>>, <<100, 101, 108, 97, 121>>>>,
      "planning"),
    \* "take ownership": take, ownership, responsibility, accountable
    Entry(<<116, 97, 107, 101, 32, 111, 119, 110, 101, 114, 115, 104, 105, 112>>,
      "accept responsibility",
      <<<<116, 97, 107, 101>>, <<111, 119, 110, 101, 114, 115, 104, 105, 112>>, <<114, 101, 115, 112, 111, 110, 115, 105, 98, 105, 108, 105, 116, 121>>, <<97, 99, 99, 111, 117, 110, 116, 97, 98, 108, 101>>>>,
      "responsibility"),
    \* "think outside the box": think, outside, box, creative, innovative
    Entry(<<116, 104, 105, 110, 107, 32, 111, 117, 116, 115, 105, 100, 101, 32, 116, 104, 101, 32, 98, 111, 120>>,
      "be creative or innovative",
      <<<<116, 104, 105, 110, 107>>, <<111, 117, 116, 115, 105, 100, 101>>, <<98, 111, 120>>, <<99, 114, 101, 97, 116, 105, 118, 101>>, <<105, 110, 110, 111, 118, 97, 116, 105, 118, 101>>>>,
      "innovation"),
    \* "thought leadership": thought, leadership, expert, authority, influence
    Entry(<<116, 104, 111, 117, 103, 104, 116, 32, 108, 101, 97, 100, 101, 114, 115, 104, 105, 112>>,
      "being recognized as an expert",
      <<<<116, 104, 111, 117, 103, 104, 116>>, <<108, 101, 97, 100, 101, 114, 115, 104, 105, 112>>, <<101, 120, 112, 101, 114, 116>>, <<97, 117, 116, 104, 111, 114, 105, 116, 121>>, <<105, 110, 102, 108, 117, 101, 110, 99, 101>>>>,
      "expertise"),
    \* "touch base": touch, base, check, communicate, brief
    Entry(<<116, 111, 117, 99, 104, 32, 98, 97, 115, 101>>,
      "check in or communicate briefly",
      <<<<116, 111, 117, 99, 104>>, <<98, 97, 115, 101>>, <<99, 104, 101, 99, 107>>, <<99, 111, 109, 109, 117, 110, 105, 99, 97, 116, 101>>, <<98, 114, 105, 101, 102>>>>,
      "communication"),
    \* "unpack": unpack, analyze, examine, detail
    Entry(<<117, 110, 112, 97, 99, 107>>,
      "analyze or examine in detail",
      <<<<117, 110, 112, 97, 99, 107>>, <<97, 110, 97, 108, 121, 122, 101>>, <<101, 120, 97, 109, 105, 110, 101>>, <<100, 101, 116, 97, 105, 108>>>>,
      "analysis"),
    \* "user experience": user, experience, ux, interaction, usability
    Entry(<<117, 115, 101, 114, 32, 101, 120, 112, 101, 114, 105, 101, 110, 99, 101>>,
      "how people interact with a product",
      <<<<117, 115, 101, 114>>, <<101, 120, 112, 101, 114, 105, 101, 110, 99, 101>>, <<117, 120>>, <<105, 110, 116, 101, 114, 97, 99, 116, 105, 111, 110>>, <<117, 115, 97, 98, 105, 108, 105, 116, 121>>>>,
      "design"),
    \* "value-add": value, add, benefit, additional, extra
    Entry(<<118, 97, 108, 117, 101, 45, 97, 100, 100>>,
      "something that provides additional benefit",
      <<<<118, 97, 108, 117, 101>>, <<97, 100, 100>>, <<98, 101, 110, 101, 102, 105, 116>>, <<97, 100, 100, 105, 116, 105, 111, 110, 97, 108>>, <<101, 120, 116, 114, 97>>>>,
      "value"),
    \* "value proposition": value, proposition, benefit, offer
    Entry(<<118, 97, 108, 117, 101, 32, 112, 114, 111, 112, 111, 115, 105, 116, 105, 111, 110>>,
      "the benefit you offer to customers",
      <<<<118, 97, 108, 117, 101>>, <<112, 114, 111, 112, 111, 115, 105, 116, 105, 111, 110>>, <<98, 101, 110, 101, 102, 105, 116>>, <<111, 102, 102, 101, 114>>>>,
      "value"),
    \* "viral coefficient": viral, coefficient, growth, referral, sharing
    Entry(<<118, 105, 114, 97, 108, 32, 99, 111, 101, 102, 102, 105, 99, 105, 101, 110, 116>>,
      "rate at which users invite others",
      <<<<118, 105, 114, 97, 108>>, <<99, 111, 101, 102, 102, 105, 99, 105, 101, 110, 116>>, <<103, 114, 111, 119, 116, 104>>, <<114, 101, 102, 101, 114, 114, 97, 108>>, <<115, 104, 97, 114, 105, 110, 103>>>>,
      "marketing"),
    \* "wheelhouse": wheelhouse, expertise, strength, skill
    Entry(<<119, 104, 101, 101, 108, 104, 111, 117, 115, 101>>,
      "area of expertise or strength",
      <<<<119, 104, 101, 101, 108, 104, 111, 117, 115, 101>>, <<101, 120, 112, 101, 114, 116, 105, 115, 101>>, <<115, 116, 114, 101, 110, 103, 116, 104>>, <<115, 107, 105, 108, 108>>>>,
      "capability"),
    \* "win-win": win, beneficial, everyone, mutual
    Entry(<<119, 105, 110, 45, 119, 105, 110>>,
      "beneficial for everyone involved",
      <<<<119, 105, 110>>, <<98, 101, 110, 101, 102, 105, 99, 105, 97, 108>>, <<101, 118, 101, 114, 121, 111, 110, 101>>, <<109, 117, 116, 117, 97, 108>>>>,
      "collaboration"),
    \* "x-factor": x, factor, special, quality, success
    Entry(<<120, 45, 102, 97, 99, 116, 111, 114>>,
      "special quality that makes something successful",
      <<<<120>>, <<102, 97, 99, 116, 111, 114>>, <<115, 112, 101, 99, 105, 97, 108>>, <<113, 117, 97, 108, 105, 116, 121>>, <<115, 117, 99, 99, 101, 115, 115>>>>,
      "quality"),
    \* "zero in on": zero, in, focus, specific, target
    Entry(<<122, 101, 114, 111, 32, 105, 110, 32, 111, 110>>,
      "focus specifically on something",
      <<<<122, 101, 114, 111>>, <<105, 110>>, <<102, 111, 99, 117, 115>>, <<115, 112, 101, 99, 105, 102, 105, 99>>, <<116, 97, 114, 103, 101, 116>>>>,
      "focus")
  >>

ShippedBuzzwords == Dictionary(ShippedEntries)
-----------------------------------------------------------------------------
(* Suggestions of the no-results view *)

\* String.prototype.startsWith
StartsWith(s, t) == Len(t) <= Len(s) /\ SubSeq(s, 1, Len(t)) = t

\* .slice(0, 6)
MaxSuggestions == 6

\* buzzword.phrase.toLowerCase() or buzzword.keywords.map(k => k.toLowerCase())
\* raises a TypeError: the entry is null or no object, has no phrase, has
\* no keywords array, or has a keyword that is no string
SimilarThrows(buzzword) ==
  \/ buzzword.shape # "object"
  \/ buzzword.phrase = <<>>
  \/ buzzword.kw # "array"
  \/ \E k \in 1..Len(buzzword.keywords) : buzzword.keywords[k] = NonString

\* keywords.some(keyword => keyword.startsWith(query) || query.startsWith(keyword))
startsWithMatch(keywords, query) ==
  \E k \in 1..Len(keywords) :
    StartsWith(ToLowerCase(keywords[k]), query) \/ StartsWith(query, ToLowerCase(keywords[k]))

\* phrase.includes(query) || query.includes(phrase)
containsMatch(phrase, query) == Includes(phrase, query) \/ Includes(query, phrase)

\* keywords.some(keyword => keyword.includes(query) &&
\*                          Math.abs(keyword.length - query.length) <= 3)
partialMatch(keywords, query) ==
  \E k \in 1..Len(keywords) :
    /\ Includes(ToLowerCase(keywords[k]), query)
    /\ Len(keywords[k]) - Len(query) <= 3
    /\ Len(query) - Len(keywords[k]) <= 3

\* startsWithMatch ? 3 : (containsMatch ? 2 : 1), and 0 for an entry that
\* is not pushed
SimilarRelevance(buzzword, query) ==
  IF startsWithMatch(buzzword.keywords, query) THEN 3
  ELSE IF containsMatch(ToLowerCase(buzzword.phrase), query) THEN 2
  ELSE IF partialMatch(buzzword.keywords, query) THEN 1
  ELSE 0

\* What suggestions.push stores for the entries with a relevance
Suggested(items, query) ==
  [i \in 1..Len(items) |->
     [phrase |-> items[i].phrase, translation |-> items[i].translation,
      relevance |-> SimilarRelevance(items[i], query)]]

\* The cut taken before the sort
TopSuggestionsCutFirst(suggestions) ==
  SortSeq(Slice(suggestions, MaxSuggestions),
          LAMBDA x, before : x.relevance - before.relevance > 0)

\* suggestions.sort((a, b) => b.relevance - a.relevance).slice(0, 6)
TopSuggestions(suggestions) ==
  Slice(SortSeq(suggestions, LAMBDA x, before : x.relevance - before.relevance > 0),
        MaxSuggestions)

\* The forEach of findSimilarBuzzwords over this.buzzwords, for the
\* lower-cased and trimmed query
SimilarTo(dict, query) ==
  IF ~dict.isArray \/ \E i \in 1..Len(dict.items) : SimilarThrows(dict.items[i])
    THEN [threw |-> TRUE, suggestions |-> <<>>]
  ELSE [threw |-> FALSE,
        suggestions |-> TopSuggestions(SelectSeq(Suggested(dict.items, query),
                                                 LAMBDA s : s.relevance > 0))]

\* findSimilarBuzzwords(searchQuery); threw is the TypeError of the forEach
findSimilarBuzzwords(dict, searchQuery) ==
  IF Len(searchQuery) < 2 THEN [threw |-> FALSE, suggestions |-> <<>>]
  ELSE SimilarTo(dict, Trim(ToLowerCase(searchQuery)))

-----------------------------------------------------------------------------
(* The engine: cache, views and performSearch *)

maxCacheSize == 100

\* A cache that deletes its newest key when it is full
cacheSearchResultsNewestOut(cache, key, results) ==
  Append(IF Len(cache) >= maxCacheSize THEN SubSeq(cache, 1, Len(cache) - 1) ELSE cache,
         [key |-> key, results |-> results])

\* cacheSearchResults on the Map, kept as a sequence of [key, results] in
\* insertion order: at capacity the first key is deleted, then key is set
\* (a key already present keeps its place)
cacheSearchResults(cache, key, results) ==
  LET room == IF Len(cache) >= maxCacheSize THEN Tail(cache) ELSE cache
  IN IF \E i \in 1..Len(room) : room[i].key = key
     THEN [i \in 1..Len(room) |->
             IF room[i].key = key THEN [key |-> key, results |-> results] ELSE room[i]]
     ELSE Append(room, [key |-> key, results |-> results])

\* this.searchCache.has(key) and this.searchCache.get(key)
CacheHas(cache, key) == \E i \in 1..Len(cache) : cache[i].key = key
CacheGet(cache, key) == cache[CHOOSE i \in 1..Len(cache) : cache[i].key = key].results

\* A cache key that keeps only the characters before the first space
CacheKeyFirstWord(sanitized) ==
  SubSeq(ToLowerCase(sanitized), 1,
         Len(SelectSeq([i \in 1..Len(sanitized) |->
                          \A k \in 1..i : sanitized[k] # 32],
                       LAMBDA inWord : inWord)))

\* const cacheKey = validation.sanitized.toLowerCase()
CacheKey(sanitized) == ToLowerCase(sanitized)

\* What the page shows: the view, what it was given, and the display style
\* of the examples container and of the results section
\* showExamples
ExamplesView ==
  [kind |-> "examples", errorType |-> "", query |-> <<>>, results |-> <<>>,
   suggestions |-> <<>>, examplesContainer |-> "block", resultsSection |-> "none"]
\* showNoResults(message, errorType, searchQuery) with the similar terms
\* generateSmartSuggestions found
NoResultsView(errorType, query, suggestions) ==
  [kind |-> "noResults", errorType |-> errorType, query |-> query, results |-> <<>>,
   suggestions |-> suggestions, examplesContainer |-> "none", resultsSection |-> "block"]
\* displayResults(results, query)
ResultsView(results, query) ==
  [kind |-> "results", errorType |-> "", query |-> query, results |-> results,
   suggestions |-> <<>>, examplesContainer |-> "none", resultsSection |-> "block"]
\* showErrorState
ErrorView ==
  [kind |-> "error", errorType |-> "", query |-> <<>>, results |-> <<>>,
   suggestions |-> <<>>, examplesContainer |-> "none", resultsSection |-> "block"]

\* showNoResults(null, 'no-results', query) once findSimilarBuzzwords has
\* returned similar: its TypeError leaves the method
showNoResults(similar, query) ==
  IF similar.threw THEN [threw |-> TRUE, view |-> ErrorView]
  ELSE [threw |-> FALSE, view |-> NoResultsView("no-results", query, similar.suggestions)]

\* A presentation that shows the results view for an empty list too
PresentResultsAlways(dict, results, query) ==
  [threw |-> FALSE, view |-> ResultsView(results, query)]

\* displayResults when the list is not empty, showNoResults otherwise
Present(dict, results, query) ==
  IF Len(results) > 0 THEN [threw |-> FALSE, view |-> ResultsView(results, query)]
  ELSE showNoResults(findSimilarBuzzwords(dict, query), query)

\* The outcomes of one performSearch call.  cache and view are what the
\* call leaves; status is "empty", "invalid", "ok" or "error"; scored says
\* whether searchWithFuzzyMatching was called and searched with which
\* string; evicted is the key deleted from the cache; thrower is the method
\* whose exception reached the catch block.

\* validation.message === 'empty': showExamples and return
EmptyOutcome(cache) ==
  [cache |-> cache, view |-> ExamplesView, status |-> "empty", reason |-> "",
   results |-> <<>>, cached |-> FALSE, scored |-> FALSE, evicted |-> <<>>,
   searched |-> <<>>, thrower |-> ""]

\* !validation.valid: the switch over validation.message
InvalidOutcome(cache, message) ==
  [cache |-> cache,
   view |-> NoResultsView(CASE message = "too_short" -> "short-input"
                            [] message = "too_long" -> "long-input"
                            [] OTHER -> "invalid-input", <<>>, <<>>),
   status |-> "invalid", reason |-> message,
   results |-> <<>>, cached |-> FALSE, scored |-> FALSE, evicted |-> <<>>,
   searched |-> <<>>, thrower |-> ""]

\* The catch block of performSearch: handleSearchError shows the error state
handleSearchError(cache) ==
  [cache |-> cache, view |-> ErrorView, status |-> "error", reason |-> "",
   results |-> <<>>, cached |-> FALSE, scored |-> FALSE, evicted |-> <<>>,
   searched |-> <<>>, thrower |-> ""]

\* this.searchCache.has(cacheKey): the cached list is presented, which gave
\* shown
CachedOutcome(cache, cacheKey, shown) ==
  IF shown.threw
    THEN [handleSearchError(cache) EXCEPT !.cached = TRUE, !.thrower = "showNoResults"]
  ELSE [cache |-> cache, view |-> shown.view,
        status |-> "ok", reason |-> "", results |-> CacheGet(cache, cacheKey),
        cached |-> TRUE, scored |-> FALSE, evicted |-> <<>>,
        searched |-> <<>>, thrower |-> ""]

\* The key cacheSearchResults deletes from cache
Evicted(cache) == IF Len(cache) >= maxCacheSize THEN cache[1].key ELSE <<>>

\* The list searchWithFuzzyMatching returned is cached, then presented,
\* which gave shown
ComputedOutcome(cache, cacheKey, sanitized, results, shown) ==
  IF shown.threw
    THEN [handleSearchError(cacheSearchResults(cache, cacheKey, results))
            EXCEPT !.scored = TRUE, !.searched = sanitized,
                   !.evicted = Evicted(cache), !.thrower = "showNoResults"]
  ELSE [cache |-> cacheSearchResults(cache, cacheKey, results),
        view |-> shown.view,
        status |-> "ok", reason |-> "", results |-> results,
        cached |-> FALSE, scored |-> TRUE, evicted |-> Evicted(cache),
        searched |-> sanitized, thrower |-> ""]

\* The search itself returned found: the catch block, or cache and present
Fresh(cache, dict, cacheKey, sanitized, found) ==
  IF found.threw
    THEN [handleSearchError(cache) EXCEPT !.scored = TRUE, !.searched = sanitized,
                                          !.thrower = "searchWithFuzzyMatching"]
  ELSE ComputedOutcome(cache, cacheKey, sanitized, found.results,
                       Present(dict, found.results, sanitized))

\* "Check cache first", else searchWithFuzzyMatching(validation.sanitized)
Lookup(cache, dict, sanitized, cacheKey) ==
  IF CacheHas(cache, cacheKey)
    THEN CachedOutcome(cache, cacheKey,
                       Present(dict, CacheGet(cache, cacheKey), sanitized))
  ELSE Fresh(cache, dict, cacheKey, sanitized, searchWithFuzzyMatching(dict, sanitized))

\* performSearch once validateSearchInput has returned validation
Validated(cache, dict, validation) ==
  IF validation.message = "empty" THEN EmptyOutcome(cache)
  ELSE IF ~validation.valid THEN InvalidOutcome(cache, validation.message)
  ELSE Lookup(cache, dict, validation.sanitized, CacheKey(validation.sanitized))

performSearch(cache, dict, query) ==
  Validated(cache, dict, validateSearchInput(query))

NoCall ==
  [tick |-> FALSE, source |-> "none", query |-> <<>>, status |-> "none",
   reason |-> "", results |-> <<>>, cached |-> FALSE, scored |-> FALSE,
   superseded |-> FALSE, evicted |-> <<>>, searched |-> <<>>, thrower |-> ""]

\* The call left outcome: the cache, the page, and the record of the call
\* (tick flips at every call)
Leaves(outcome, query, source, superseded) ==
  /\ searchCache' = outcome.cache
  /\ view' = outcome.view
  /\ lastCall' = [tick |-> ~lastCall.tick, source |-> source, query |-> query,
                  status |-> outcome.status, reason |-> outcome.reason,
                  results |-> outcome.results, cached |-> outcome.cached,
                  scored |-> outcome.scored, superseded |-> superseded,
                  evicted |-> outcome.evicted, searched |-> outcome.searched,
                  thrower |-> outcome.thrower]

\* The state change of a call performSearch(query) made by source
Search(query, source, superseded) ==
  Leaves(performSearch(searchCache, buzzwords, query), query, source, superseded)

-----------------------------------------------------------------------------
(* Dictionaries and queries of the runs *)

\* The shipped entry with the given phrase
Shipped(phrase) ==
  ShippedEntries[CHOOSE i \in 1..Len(ShippedEntries) : ShippedEntries[i].phrase = phrase]

\* A two-entry array: "synergy" and "pivot" as shipped
MainEntries == <<Shipped(<<115, 121, 110, 101, 114, 103, 121>>), Shipped(<<112, 105, 118, 111, 116>>)>>  \* "synergy", "pivot"

\* An entry whose keywords array holds a number: keyword.toLowerCase()
\* raises a TypeError on it
BadKeywordEntry ==
  [shape |-> "object", phrase |-> <<98, 97, 110, 100, 119, 105, 100, 116, 104>>, translation |-> "time or capacity",  \* "bandwidth"
   kw |-> "array", keywords |-> <<<<98, 97, 110, 100, 119, 105, 100, 116, 104>>, NonString>>, category |-> "resources"]  \* "bandwidth"

\* The malformed entries an array can hold: null, a number, an object
\* without phrase, one without keywords, one whose keywords are no array,
\* and one with a keyword that is no string
MalformedEntries ==
  << [shape |-> "null", phrase |-> <<>>, translation |-> "", kw |-> "missing",
      keywords |-> <<>>, category |-> ""],
     [shape |-> "primitive", phrase |-> <<>>, translation |-> "", kw |-> "missing",
      keywords |-> <<>>, category |-> ""],
     [shape |-> "object", phrase |-> <<>>, translation |-> "use", kw |-> "array",
      keywords |-> <<<<108, 101, 118, 101, 114, 97, 103, 101>>>>, category |-> "action"],
     [shape |-> "object", phrase |-> <<108, 101, 118, 101, 114, 97, 103, 101>>, translation |-> "use",
      kw |-> "missing", keywords |-> <<>>, category |-> "action"],
     [shape |-> "object", phrase |-> <<108, 101, 118, 101, 114, 97, 103, 101>>, translation |-> "use",
      kw |-> "notArray", keywords |-> <<>>, category |-> "action"],
     BadKeywordEntry >>

\* What the user types: nothing, one letter, a phrase, the phrase in other
\* writing, words that are no phrase, and a phrase inside markup
RawQueries ==
  { <<>>, <<97>>, <<115, 121, 110, 101, 114, 103, 121>>, <<32, 83, 89, 78, 69, 82, 71, 89>>, <<115, 121, 110, 101, 114, 103, 121, 32, 110, 111, 119>>, <<122, 122>>,  \* "a", "synergy", " SYNERGY", "synergy now", "zz"
    <<34, 115, 121, 110, 101, 114, 103, 121, 34, 32, 38, 32, 99, 111>> }  \* "synergy" & co, typed with the quotes

\* The example chips of showExamples
popularBuzzwords ==
  << <<115, 121, 110, 101, 114, 103, 121>>, <<112, 105, 118, 111, 116>>, <<108, 111, 119, 32, 104, 97, 110, 103, 105, 110, 103, 32, 102, 114, 117, 105, 116>>, <<99, 105, 114, 99, 108, 101, 32, 98, 97, 99, 107>>,  \* "synergy", "pivot", "low hanging fruit", "circle back"
     <<100, 101, 101, 112, 32, 100, 105, 118, 101>>, <<109, 111, 118, 101, 32, 116, 104, 101, 32, 110, 101, 101, 100, 108, 101>>, <<116, 104, 105, 110, 107, 32, 111, 117, 116, 115, 105, 100, 101, 32, 116, 104, 101, 32, 98, 111, 120>>, <<108, 101, 118, 101, 114, 97, 103, 101>>,  \* "deep dive", "move the needle", "think outside the box", "leverage"
     <<98, 97, 110, 100, 119, 105, 100, 116, 104>>, <<97, 99, 116, 105, 111, 110, 97, 98, 108, 101, 32, 105, 110, 115, 105, 103, 104, 116, 115>>, <<103, 97, 109, 101, 32, 99, 104, 97, 110, 103, 101, 114>>, <<116, 111, 117, 99, 104, 32, 98, 97, 115, 101>> >>  \* "bandwidth", "actionable insights", "game changer", "touch base"

MaxChips == 2
MaxTimers == 2
MaxEvents == 4

-----------------------------------------------------------------------------
(* Construction and the handlers *)

\* The state the constructor leaves, for the loaded array
Constructed(array) ==
  /\ searchEngine = "created"
  /\ buzzwords = array
  /\ globalBuzzwords = array
  /\ searchInput = <<>>
  /\ debounceTimer = 0
  /\ timers = <<>>
  /\ searchCache = <<>>
  /\ view = ExamplesView
  /\ lastCall = NoCall
  /\ events = 0

Init == Constructed(Dictionary(MainEntries))

\* setTimeout returns an id no pending timeout has
FreshTimerId(pending) ==
  CHOOSE n \in 1..(Len(pending) + 1) :
    /\ \A i \in 1..Len(pending) : pending[i].id # n
    /\ \A m \in 1..(n - 1) : \E i \in 1..Len(pending) : pending[i].id = m

\* debouncedSearch(query): clearTimeout of the handle, if there is one,
\* then a new timeout.  A timeout still pending when a newer value arrives
\* holds a superseded value.
debouncedSearch(query) ==
  LET remaining == IF debounceTimer # 0
                     THEN SelectSeq(timers, LAMBDA t : t.id # debounceTimer)
                     ELSE timers
      stale == [i \in 1..Len(remaining) |-> [remaining[i] EXCEPT !.superseded = TRUE]]
      id == FreshTimerId(remaining)
  IN /\ Len(remaining) < MaxTimers
     /\ timers' = Append(stale, [id |-> id, query |-> query, superseded |-> FALSE])
     /\ debounceTimer' = id

\* The input event of the search box: the user changed the value to value
\* (the event fires only when the value changes)
InputEvent(value) ==
  /\ value # searchInput
  /\ searchInput' = value
  /\ debouncedSearch(value)
  /\ UNCHANGED <<buzzwords, globalBuzzwords, searchCache, view, lastCall>>

\* The callback of the timeout set by debouncedSearch.  Every timeout has
\* the same delay, so they expire in the order they were set.
TimerFires ==
  /\ timers # <<>>
  /\ Search(Head(timers).query, "debounce", Head(timers).superseded)
  /\ timers' = Tail(timers)
  /\ UNCHANGED <<buzzwords, globalBuzzwords, searchInput, debounceTimer>>

\* keydown Enter: performSearch(this.searchInput.value)
EnterKey ==
  /\ Search(searchInput, "enter", FALSE)
  /\ UNCHANGED <<buzzwords, globalBuzzwords, searchInput, debounceTimer, timers>>

\* clearSearch: the clear button, Escape, or the error state's button
clearSearch ==
  /\ searchInput' = <<>>
  /\ view' = ExamplesView
  /\ UNCHANGED <<buzzwords, globalBuzzwords, debounceTimer, timers, searchCache,
                 lastCall>>

\* showRandomBuzzword for the index Math.random gave; the click handler's
\* catch shows the error state
showRandomBuzzword(randomIndex) ==
  IF ~buzzwords.isArray \/ Len(buzzwords.items) = 0
    THEN /\ randomIndex = 1
         /\ view' = ErrorView
         /\ UNCHANGED <<buzzwords, globalBuzzwords, searchInput, debounceTimer,
                        timers, searchCache, lastCall>>
  ELSE /\ randomIndex \in 1..Len(buzzwords.items)
       /\ LET randomBuzzword == buzzwords.items[randomIndex]
          IN IF randomBuzzword.shape # "object" \/ randomBuzzword.phrase = <<>>
               THEN /\ view' = ErrorView
                    /\ UNCHANGED <<searchInput, searchCache, lastCall>>
             ELSE /\ searchInput' = randomBuzzword.phrase
                  /\ Search(randomBuzzword.phrase, "random", FALSE)
       /\ UNCHANGED <<buzzwords, globalBuzzwords, debounceTimer, timers>>

\* handleChipActivation for an example chip, shown with the examples
handleChipActivation(chip) ==
  /\ view.kind = "examples"
  /\ searchInput' = popularBuzzwords[chip]
  /\ Search(popularBuzzwords[chip], "chip", FALSE)
  /\ UNCHANGED <<buzzwords, globalBuzzwords, debounceTimer, timers>>

\* performHealthCheck, every 30 seconds: a reference that is no array is
\* replaced by the global array
performHealthCheck ==
  /\ buzzwords' = IF ~buzzwords.isArray THEN globalBuzzwords ELSE buzzwords
  /\ UNCHANGED <<globalBuzzwords, searchInput, debounceTimer, timers, searchCache,
                 view, lastCall>>

\* clearCaches, run by the memory check when the heap is above 50 MB: the
\* handle is set to null, the timeout it named is not cleared
clearCaches ==
  /\ debounceTimer' = 0
  /\ searchCache' = <<>>
  /\ UNCHANGED <<buzzwords, globalBuzzwords, searchInput, timers, view, lastCall>>

\* Every run of a handler the constructor registered counts as one event of
\* the engine, up to MaxEvents
Counted ==
  /\ searchEngine = "created" /\ UNCHANGED searchEngine
  /\ events < MaxEvents /\ events' = events + 1

Next ==
  \/ \E value \in RawQueries : Counted /\ InputEvent(value)
  \/ Counted /\ TimerFires
  \/ Counted /\ EnterKey
  \/ Counted /\ clearSearch
  \/ \E randomIndex \in 1..Max2(1, Len(buzzwords.items)) :
       Counted /\ showRandomBuzzword(randomIndex)
  \/ \E chip \in 1..MaxChips : Counted /\ handleChipActivation(chip)
  \/ Counted /\ performHealthCheck
  \/ Counted /\ clearCaches

Spec == Init /\ [][Next]_vars
-----------------------------------------------------------------------------
(* Searches of one typed value, over the shipped array and over small arrays *)

\* Entries a contributor could add; their keyword scores for the query
\* "sync" are 0.472, 0.4642857142857143 and 0.46
WeeklyStatus ==
  Entry(<<119, 101, 101, 107, 108, 121, 32, 115, 116, 97, 116, 117, 115>>, "a recurring progress report",  \* "weekly status"
        <<<<115, 121, 110, 99, 105, 110, 103>>, <<97>>, <<98>>, <<100>>, <<101>>>>, "communication")  \* "syncing", "a", "b", "d", "e"
StandUp ==
  Entry(<<115, 116, 97, 110, 100, 32, 117, 112>>, "a short daily meeting",  \* "stand up"
        <<<<115, 121, 110, 99>>, <<97>>, <<98>>, <<100>>, <<101>>, <<102>>, <<103>>>>, "communication")  \* "sync", "a", "b", "d", "e", "f", "g"
Huddle ==
  Entry(<<104, 117, 100, 100, 108, 101>>, "a quick informal meeting",  \* "huddle"
        <<<<114, 101, 115, 121, 110, 99>>, <<97>>, <<98>>, <<100>>, <<101>>, <<102>>>>, "communication")  \* "resync", "a", "b", "d", "e", "f"

EntryPool == <<WeeklyStatus, StandUp, Huddle, Shipped(<<115, 121, 110, 101, 114, 103, 121>>), BadKeywordEntry>>  \* "synergy"

MaxDictLen == 3

\* The sequences of up to MaxDictLen different pool entries
RECURSIVE Arrangements(_)
Arrangements(n) ==
  IF n = 0 THEN {<<>>}
  ELSE Arrangements(n - 1) \cup
       { Append(d, i) : d \in { a \in Arrangements(n - 1) : Len(a) = n - 1 },
                        i \in 1..Len(EntryPool) }

SmallDictionaries ==
  { Dictionary([k \in 1..Len(d) |-> EntryPool[d[k]]]) :
      d \in { a \in Arrangements(Min2(MaxDictLen, Len(EntryPool))) :
                a # <<>> /\ \A i, j \in 1..Len(a) : i # j => a[i] # a[j] } }

Letters(n) == [i \in 1..n |-> 97]

\* Typed values: the documented examples of each validation outcome, values
\* the sanitizer changes, and words near the entries
ProbeQueries ==
  { <<>>, <<97>>, <<49, 50, 51>>, Letters(MaxQueryLength + 1), Letters(MaxQueryLength),  \* "a", "123"
    <<32, 32>>, <<32, 97, 32>>, <<60, 98, 62>>, <<97, 49>>, <<9, 122, 122, 0>>,  \* "  ", " a ", "<b>", "a1", "\tzz\0"
    <<115, 121, 110, 99>>, <<115, 121, 110, 101, 114, 103, 121>>, <<115, 121, 110, 101, 114, 103, 121, 121>>, <<83, 121, 110, 101, 114, 103, 121>>, <<116, 101, 97, 109, 119, 111, 114, 107>>,  \* "sync", "synergy", "synergyy", "Synergy", "teamwork"
    <<60, 115, 99, 114, 105, 112, 116, 62, 97, 108, 101, 114, 116, 40, 49, 41, 60, 47, 115, 99, 114, 105, 112, 116, 62, 115, 121, 110, 101, 114, 103, 121>> }  \* a script element before "synergy"

\* Values typed into the page with the shipped array
ShippedQueries ==
  { ShippedEntries[i].phrase : i \in 1..Len(ShippedEntries) }
  \cup ProbeQueries
  \cup { <<116, 104, 101>>, <<105, 110>>,  \* "the", "in"
         <<103, 101, 116, 32, 111, 117, 35, 32, 103, 101, 116>> }  \* "get ou# get"

SearchCases ==
  ({ShippedBuzzwords} \X ShippedQueries) \cup (SmallDictionaries \X ProbeQueries)

\* The page after construction with array and one input event with value:
\* the value is in the box and its debounced search is pending
Typed(array, value) ==
  /\ searchEngine = "created"
  /\ buzzwords = array
  /\ globalBuzzwords = array
  /\ searchInput = value
  /\ debounceTimer = 1
  /\ timers = <<[id |-> 1, query |-> value, superseded |-> FALSE]>>
  /\ searchCache = <<>>
  /\ view = ExamplesView
  /\ lastCall = NoCall
  /\ events = 1

SearchInit == \E case \in SearchCases : Typed(case[1], case[2])

\* The typed value is searched: by the debounce timeout, or by Enter
SearchNext ==
  \/ TimerFires /\ UNCHANGED <<searchEngine, events>>
  \/ EnterKey /\ UNCHANGED <<searchEngine, events>>

SpecSearch == SearchInit /\ [][SearchNext]_vars
-----------------------------------------------------------------------------
(* Properties of a search *)

\* The sanitized query of the call on record, as the ranker normalizes it
CallSanitized == sanitizeInput(lastCall.query)
CallNormalized == Trim(ToLowerCase(CallSanitized))

\* The call on record ran searchWithFuzzyMatching and it returned a list
Computed == lastCall.status = "ok" /\ lastCall.scored

\* Every result that qualifies for the call on record, in sorted order
SortedQualifying ==
  SortResults(Qualifying(
    Relevant(buzzwords.items, CallNormalized, SplitWords(CallNormalized)),
    CallNormalized, SplitWords(CallNormalized)))

\* The matcher, the 0.1 threshold, the sort and the cut applied to every
\* entry that is an object with a phrase, without the substring pre-filter
WithoutPreFilter ==
  Slice(SortResults(Qualifying(
          SelectSeq(buzzwords.items,
                    LAMBDA buzzword : buzzword.shape = "object" /\ buzzword.phrase # <<>>),
          CallNormalized, SplitWords(CallNormalized))),
        TopK)

\* The results of the call on record hold phrase
Returned(phrase) ==
  \E k \in 1..Len(lastCall.results) : lastCall.results[k].match = phrase

\* b outranks a under the rule chain: a score higher by more than 0.01
\* wins; otherwise exact wins over any other type; otherwise
\* phrase_contains wins over any remaining type; otherwise the shorter
\* phrase wins
Outranks(b, a) ==
  IF FLess(Lit_0_01, FSub(b.relevanceScore, a.relevanceScore)) THEN TRUE
  ELSE IF FLess(Lit_0_01, FSub(a.relevanceScore, b.relevanceScore)) THEN FALSE
  ELSE IF (a.matchType = "exact") # (b.matchType = "exact") THEN b.matchType = "exact"
  ELSE IF (a.matchType = "phrase_contains") # (b.matchType = "phrase_contains")
    THEN b.matchType = "phrase_contains"
  ELSE Len(b.match) < Len(a.match)

\* C1: for every entry e of the shipped dictionary, the search for e.phrase
\* as the raw query returns a list that holds e.phrase with matchType exact
\* and relevanceScore 1.0, placed before every result whose score is below 1.0
C1_ShippedPhraseIsExactFirst ==
  \A i \in 1..Len(ShippedEntries) :
    ( /\ buzzwords = ShippedBuzzwords
      /\ lastCall.status # "none"
      /\ lastCall.query = ShippedEntries[i].phrase )
    => /\ lastCall.status = "ok"
       /\ \E k \in 1..Len(lastCall.results) :
            /\ lastCall.results[k].match = ShippedEntries[i].phrase
            /\ lastCall.results[k].matchType = "exact"
            /\ lastCall.results[k].relevanceScore = Lit_1_0
            /\ \A j \in 1..Len(lastCall.results) :
                 FLess(lastCall.results[j].relevanceScore, Lit_1_0) => k < j

\* C2: validation puts every raw query in exactly one class, decided on the
\* sanitized query: empty gives "empty"; one character gives too_short; more
\* than 100 characters gives too_long; 2..100 characters without a letter
\* gives invalid_characters; every other query is valid and is searched.
\* The documented examples "", "a", "123" and 101 letters fall in the first
\* four classes, and no scoring runs for an empty or invalid query.
C2_ValidationClasses ==
  lastCall.status # "none" =>
    /\ (Len(CallSanitized) = 0) <=> (lastCall.status = "empty")
    /\ (Len(CallSanitized) = 1)
         <=> (lastCall.status = "invalid" /\ lastCall.reason = "too_short")
    /\ (Len(CallSanitized) > 100)
         <=> (lastCall.status = "invalid" /\ lastCall.reason = "too_long")
    /\ (/\ Len(CallSanitized) \in 2..100
        /\ \A i \in 1..Len(CallSanitized) : ~IsLetter(CallSanitized[i]))
         <=> (lastCall.status = "invalid" /\ lastCall.reason = "invalid_characters")
    /\ (/\ Len(CallSanitized) \in 2..100
        /\ \E i \in 1..Len(CallSanitized) : IsLetter(CallSanitized[i]))
         <=> (lastCall.status \in {"ok", "error"})
    /\ lastCall.status \in {"empty", "invalid"} => ~lastCall.scored
    /\ lastCall.query = <<>> => lastCall.status = "empty"
    /\ lastCall.query = <<97>> => lastCall.reason = "too_short"  \* "a"
    /\ lastCall.query = <<49, 50, 51>> => lastCall.reason = "invalid_characters"  \* "123"
    /\ lastCall.query = Letters(101) => lastCall.reason = "too_long"

\* Each of the three rejections has been given for a typed value
C2_Rejected == 
  /\ lastCall.status = "invalid"
  /\ \/ lastCall.query = Letters(101) /\ lastCall.reason = "too_long"
     \/ lastCall.query = <<32, 97, 32>> /\ lastCall.reason = "too_short"  \* " a "

\* C3: for a dictionary that holds the shipped entry synergy, the search for
\* "synergyy" returns synergy with matchType fuzzy and a score above 0.1;
\* and an entry whose phrase is within one character edit of the query is
\* among the results
C3_TypoTolerance ==
  lastCall.status = "ok" =>
    \A i \in 1..Len(buzzwords.items) :
      /\ levenshteinDistance(ToLowerCase(buzzwords.items[i].phrase), CallNormalized) <= 1
           => Returned(buzzwords.items[i].phrase)
      /\ (lastCall.query = <<115, 121, 110, 101, 114, 103, 121, 121>> /\ buzzwords.items[i] = Shipped(<<115, 121, 110, 101, 114, 103, 121>>))  \* "synergyy", "synergy"
           => \E k \in 1..Len(lastCall.results) :
                /\ lastCall.results[k].match = <<115, 121, 110, 101, 114, 103, 121>>  \* "synergy"
                /\ lastCall.results[k].matchType = "fuzzy"
                /\ FLess(Lit_0_1, lastCall.results[k].relevanceScore)

\* C4: the list a search returns equals the list computed without the
\* substring pre-filter
C4_PreFilterChangesNothing ==
  Computed => lastCall.results = WithoutPreFilter

\* C5: in a returned list no result outranks a result placed before it
C5_NoLaterResultOutranks ==
  lastCall.status = "ok" =>
    \A i, j \in 1..Len(lastCall.results) :
      i < j => ~Outranks(lastCall.results[j], lastCall.results[i])

\* C6: a returned list has at most 10 elements, and they are the first of
\* the sorted order of the qualifying results: all of them when at most 10
\* qualify, the first 10 otherwise
C6_TopTenOfSorted ==
  Computed =>
    /\ Len(lastCall.results) <= 10
    /\ lastCall.results = SubSeq(SortedQualifying, 1, Len(lastCall.results))
    /\ Len(SortedQualifying) > 10 => Len(lastCall.results) = 10
    /\ Len(SortedQualifying) <= 10 => Len(lastCall.results) = Len(SortedQualifying)

\* A search in which more than 10 entries qualified
C6_MoreThanTenQualify ==
  Computed /\ Len(SortedQualifying) > 10 /\ Len(lastCall.results) = 10
-----------------------------------------------------------------------------
(* The page with a cache near its capacity *)

\* Places left in the cache when a run starts
Room == 1

\* The i-th of the earlier queries no run types again: "qaa", "qab", ...
EarlierQuery(i) == <<113, 97 + (i \div 26), 97 + (i % 26)>>

\* What a search for sanitized stored in the cache
Stored(array, sanitized) ==
  [key |-> CacheKey(sanitized),
   results |-> searchWithFuzzyMatching(array, sanitized).results]

\* The cache after size searches for different queries, oldest first
EarlierSearches(array, oldest, size) ==
  [i \in 1..size |->
     IF i = 1 THEN Stored(array, oldest) ELSE Stored(array, EarlierQuery(i))]

\* The page after the earlier searches and a clearSearch
CacheInit ==
  \E oldest \in {<<115, 121, 110, 101, 114, 103, 121>>, <<122, 122>>, EarlierQuery(1)},  \* "synergy", "zz"
     size \in (maxCacheSize - Room)..maxCacheSize :
    /\ searchEngine = "created"
    /\ buzzwords = Dictionary(MainEntries)
    /\ globalBuzzwords = Dictionary(MainEntries)
    /\ searchInput = <<>>
    /\ debounceTimer = 0
    /\ timers = <<>>
    /\ searchCache = EarlierSearches(Dictionary(MainEntries), oldest, size)
    /\ view = ExamplesView
    /\ lastCall = NoCall
    /\ events = 0

SpecCache == CacheInit /\ [][Next]_vars

\* A call of performSearch was made in this step
Called == lastCall'.tick # lastCall.tick

\* The list searchWithFuzzyMatching computes for raw on the current array
FreshList(raw) == searchWithFuzzyMatching(buzzwords, sanitizeInput(raw)).results

\* raw is searched: validation accepts it
ValidQuery(raw) == validateSearchInput(raw).message = "valid"

\* C7: a performSearch call with a valid query presents the list a fresh
\* computation gives, whatever searches, evictions and clears came before
\* (so repeated searches of one query present one list); and two raw
\* queries with the same cache key have the same fresh list
C7_PresentsFreshList ==
  /\ [](\A q1, q2 \in RawQueries :
          ( /\ ValidQuery(q1) /\ ValidQuery(q2)
            /\ CacheKey(sanitizeInput(q1)) = CacheKey(sanitizeInput(q2)) )
          => FreshList(q1) = FreshList(q2))
  /\ [][(Called /\ lastCall'.status = "ok") =>
          /\ lastCall'.results = FreshList(lastCall'.query)
          /\ view' = Present(buzzwords, FreshList(lastCall'.query),
                              sanitizeInput(lastCall'.query)).view]_vars

\* A cached list was presented for a query written otherwise than its key,
\* in a cache that had evicted its oldest key
C7_HitForOtherWriting ==
  /\ lastCall.status = "ok" /\ lastCall.cached
  /\ lastCall.query = <<32, 83, 89, 78, 69, 82, 71, 89>>  \* " SYNERGY"
  /\ lastCall.results # <<>>
  /\ Len(searchCache) = maxCacheSize
  /\ ~CacheHas(searchCache, EarlierQuery(1))

-----------------------------------------------------------------------------
(* The page with a damaged array *)

\* Another script of the page assigns a value that is no array to the
\* engine's buzzwords property; performHealthCheck exists to repair this
CorruptBuzzwords ==
  /\ buzzwords.isArray
  /\ buzzwords' = Corrupted
  /\ UNCHANGED <<globalBuzzwords, searchInput, debounceTimer, timers, searchCache,
                 view, lastCall>>

\* The array as shipped, or with one malformed entry added
FaultInit ==
  \E array \in {Dictionary(MainEntries)}
                  \cup {Dictionary(Append(MainEntries, MalformedEntries[k])) :
                          k \in 1..Len(MalformedEntries)} :
    Constructed(array)

FaultNext ==
  \/ Next
  \/ Counted /\ CorruptBuzzwords

SpecFault == FaultInit /\ [][FaultNext]_vars

\* C9: a performSearch call that ends in a fault, and a call whose query is
\* empty or invalid, leaves the cache as it was before the call
C9_FailedCallKeepsCache ==
  [][(Called /\ lastCall'.status \in {"error", "empty", "invalid"})
       => searchCache' = searchCache]_vars

\* C10: at most one debounced search is pending at any time, and the
\* debounce layer runs no search for a superseded value, in every
\* interleaving with the health check and clearCaches
C10_OnePendingSearch ==
  /\ Len(timers) <= 1
  /\ ~(lastCall.source = "debounce" /\ lastCall.superseded)
-----------------------------------------------------------------------------
(* Properties of the page *)

\* The idle state: the box is empty and the examples are shown (showExamples
\* hides the results section)
Idle == searchInput = <<>> /\ view = ExamplesView

\* The step is the callback of a debounce timeout
TimerStep == Called /\ lastCall'.source = "debounce"

\* C11: an explicit clear puts the page into the idle state, and the page
\* stays idle until the next user input event: no timer callback shows a
\* result or no-results view for a value typed before the clear
C11_ClearedStaysIdle ==
  [][/\ (Counted /\ clearSearch) => Idle'
     /\ (Idle /\ TimerStep) => Idle']_vars

\* C12: after a performSearch call that ends without a fault the view is
\* determined by the query: the examples iff the sanitized query is empty,
\* the results iff the query is valid and the search finds at least one
\* entry, the no-results view otherwise; and the examples container and the
\* results section are never both displayed
C12_ViewFollowsQuery ==
  /\ [](~(view.examplesContainer = "block" /\ view.resultsSection = "block"))
  /\ [][(Called /\ lastCall'.status # "error") =>
          /\ (view'.kind = "examples") <=> (sanitizeInput(lastCall'.query) = <<>>)
          /\ (view'.kind = "results")
               <=> (ValidQuery(lastCall'.query) /\ Len(FreshList(lastCall'.query)) > 0)
          /\ (view'.kind = "noResults")
               <=> ( /\ sanitizeInput(lastCall'.query) # <<>>
                     /\ ~(ValidQuery(lastCall'.query) /\ Len(FreshList(lastCall'.query)) > 0) )
          /\ view'.kind \in {"examples", "results", "noResults"}]_vars

\* The no-results view is shown for a valid query that found nothing
C12_NothingFound ==
  /\ lastCall.status = "ok" /\ lastCall.results = <<>>
  /\ ValidQuery(lastCall.query)
  /\ view.kind = "noResults" /\ view.errorType = "no-results"
  /\ view.resultsSection = "block"

\* The string holds one of the characters < > " ' &
HasMarkup(str) == \E i \in 1..Len(str) : str[i] \in {60, 62, 34, 39, 38}

\* One of the lists holds a matched term with such a character
MarkupInMatches(results) ==
  \E k \in 1..Len(results) :
    \E j \in 1..Len(results[k].matchedKeywords) : HasMarkup(results[k].matchedKeywords[j])

\* C13: whatever was typed, submitted or chosen, the string handed to
\* scoring, every cache key, the query given to the views and their
\* suggestion generators, and every matched term of a presented or cached
\* result hold none of the characters < > " ' &
C13_NoMarkupReachesSearch ==
  /\ ~HasMarkup(lastCall.searched)
  /\ \A i \in 1..Len(searchCache) :
       ~HasMarkup(searchCache[i].key) /\ ~MarkupInMatches(searchCache[i].results)
  /\ ~HasMarkup(view.query)
  /\ ~MarkupInMatches(view.results)
  /\ ~MarkupInMatches(lastCall.results)

\* A query typed with such characters was scored, cached and shown
C13_MarkupTyped ==
  /\ HasMarkup(lastCall.query)
  /\ lastCall.scored /\ lastCall.searched # <<>>
  /\ CacheHas(searchCache, CacheKey(lastCall.searched))
  /\ view.kind = "results" /\ Len(view.results) > 0

\* The call on record left what outcome holds: its status, its ordered
\* list, and in the cache that was empty before the call the same keys
SameOutcome(outcome) ==
  /\ lastCall.status = outcome.status
  /\ lastCall.reason = outcome.reason
  /\ lastCall.results = outcome.results
  /\ searchCache = outcome.cache

ScriptQuery == <<60, 115, 99, 114, 105, 112, 116, 62, 97, 108, 101, 114, 116, 40, 49, 41, 60, 47, 115, 99, 114, 105, 112, 116, 62, 115, 121, 110, 101, 114, 103, 121>>

\* C14 as stated: the search for '<script>alert(1)</script>synergy' has the
\* validation status, the ordered results and the cache key of the search
\* for "scriptalert1script synergy"
C14_SameAsSpacedQuery ==
  (lastCall.source # "none" /\ lastCall.query = ScriptQuery)
    => SameOutcome(performSearch(<<>>, buzzwords, <<115, 99, 114, 105, 112, 116, 97, 108, 101, 114, 116, 49, 115, 99, 114, 105, 112, 116, 32, 115, 121, 110, 101, 114, 103, 121>>))

\* C14: the search for '<script>alert(1)</script>synergy' has the validation
\* status, the ordered results and the cache key of the search for
\* "scriptalert(1)/scriptsynergy", the string the sanitizer leaves of it and
\* the key under which a returned list is cached
C14_SameAsStrippedQuery ==
  (lastCall.source # "none" /\ lastCall.query = ScriptQuery)
    => /\ SameOutcome(performSearch(<<>>, buzzwords, <<115, 99, 114, 105, 112, 116, 97, 108, 101, 114, 116, 40, 49, 41, 47, 115, 99, 114, 105, 112, 116, 115, 121, 110, 101, 114, 103, 121>>))
       /\ lastCall.scored => lastCall.searched = <<115, 99, 114, 105, 112, 116, 97, 108, 101, 114, 116, 40, 49, 41, 47, 115, 99, 114, 105, 112, 116, 115, 121, 110, 101, 114, 103, 121>>
       /\ lastCall.status = "ok" => CacheHas(searchCache, <<115, 99, 114, 105, 112, 116, 97, 108, 101, 114, 116, 40, 49, 41, 47, 115, 99, 114, 105, 112, 116, 115, 121, 110, 101, 114, 103, 121>>)

\* The query with the script element was searched over the shipped array
C14_ScriptSearched ==
  /\ lastCall.query = ScriptQuery
  /\ lastCall.status = "ok" /\ lastCall.scored
  /\ buzzwords = ShippedBuzzwords

\* C15: every result a search returns has a relevanceScore above 0.1 and at
\* most 1.0, and a matchType that names one of the five rules
C15_ScoreAndTypeOfResults ==
  \A k \in 1..Len(lastCall.results) :
    /\ FLess(Lit_0_1, lastCall.results[k].relevanceScore)
    /\ ~FLess(Lit_1_0, lastCall.results[k].relevanceScore)
    /\ lastCall.results[k].matchType
         \in {"exact", "phrase_contains", "query_contains", "keyword", "fuzzy"}

\* A search returned a result with the score 1.0, a keyword result and a
\* fuzzy result
C15_ExactKeywordFuzzyReturned ==
  /\ Computed
  /\ \E k \in 1..Len(lastCall.results) : lastCall.results[k].relevanceScore = Lit_1_0
  /\ \A type \in {"exact", "keyword", "fuzzy"} :
       \E k \in 1..Len(lastCall.results) : lastCall.results[k].matchType = type

\* The entry is an object with a phrase and an array of keywords that are
\* strings
WellFormed(buzzword) ==
  /\ buzzword.shape = "object" /\ buzzword.phrase # <<>>
  /\ buzzword.kw = "array"
  /\ \A j \in 1..Len(buzzword.keywords) : buzzword.keywords[j] # NonString

\* C16: over an array with malformed entries a search of a valid query ends
\* with a result list, never in the error state, and the list is the one
\* the well-formed entries alone give
C16_MalformedEntrySkipped ==
  [][(Called /\ buzzwords.isArray /\ ValidQuery(lastCall'.query)) =>
       /\ lastCall'.status = "ok"
       /\ lastCall'.results =
            searchWithFuzzyMatching(Dictionary(SelectSeq(buzzwords.items, WellFormed)),
                                    sanitizeInput(lastCall'.query)).results]_vars
-----------------------------------------------------------------------------
(* Loading the page *)

\* The page as served, before the DOMContentLoaded handler ran; the
\* stylesheet decides what is displayed
StaticView ==
  [kind |-> "page", errorType |-> "", query |-> <<>>, results |-> <<>>,
   suggestions |-> <<>>, examplesContainer |-> "static", resultsSection |-> "static"]

\* "Unable to Load Application" with the Reload Page button, written by the
\* catch block of the handler
InitializationErrorView ==
  [kind |-> "initialization-error", errorType |-> "", query |-> <<>>, results |-> <<>>,
   suggestions |-> <<>>, examplesContainer |-> "static", resultsSection |-> "static"]

\* typeof buzzwords === 'undefined': no script defined the global
Undefined == [isArray |-> FALSE, items |-> <<>>, defined |-> FALSE]

\* The filter of the handler: the entry is no object, or has no phrase or no
\* translation
IsInvalidBuzzword(buzzword) ==
  \/ buzzword.shape # "object"
  \/ buzzword.phrase = <<>> \/ buzzword.translation = ""

invalidBuzzwords(items) == SelectSeq(items, IsInvalidBuzzword)

\* A test that refuses an array of which exactly half is invalid
TooManyInvalidFromHalf(invalid, length) == 2 * invalid >= length

\* invalidBuzzwords.length > buzzwords.length * 0.5
TooManyInvalid(invalid, length) == 2 * invalid > length

\* One of the four throw statements of the handler is reached
LoaderThrows(supplied) ==
  \/ supplied = Undefined
  \/ ~supplied.isArray \/ Len(supplied.items) = 0
  \/ TooManyInvalid(Len(invalidBuzzwords(supplied.items)), Len(supplied.items))

\* The DOMContentLoaded handler: window.searchEngine = new
\* BuzzwordSearchEngine(buzzwords) with the array as supplied, or the
\* message of the catch block
DOMContentLoaded ==
  /\ view = StaticView
  /\ IF LoaderThrows(globalBuzzwords)
       THEN /\ view' = InitializationErrorView
            /\ UNCHANGED <<searchEngine, buzzwords>>
       ELSE /\ searchEngine' = "created"
            /\ buzzwords' = globalBuzzwords
            /\ view' = ExamplesView
  /\ UNCHANGED <<globalBuzzwords, searchInput, debounceTimer, timers, searchCache,
                 lastCall, events>>

\* Entries of a supplied array: two complete ones, null, one without
\* translation, and one without keywords
SuppliedPool ==
  << Shipped(<<115, 121, 110, 101, 114, 103, 121>>), Shipped(<<112, 105, 118, 111, 116>>), MalformedEntries[1],
     [Shipped(<<98, 97, 110, 100, 119, 105, 100, 116, 104>>) EXCEPT !.translation = ""], MalformedEntries[4] >>

MaxSupplied == 2

\* What buzzwords.js, or the lack of it, supplies: nothing, a value that is
\* no array, and the arrays of up to MaxSupplied pool entries
SuppliedDictionaries ==
  {Undefined, Corrupted}
  \cup { Dictionary([k \in DOMAIN choice |-> SuppliedPool[choice[k]]]) :
           choice \in UNION { [1..n -> 1..Len(SuppliedPool)] : n \in 0..MaxSupplied } }

\* The page as served with what was supplied
LoadInit ==
  \E supplied \in SuppliedDictionaries :
    /\ searchEngine = "undefined"
    /\ buzzwords = Undefined
    /\ globalBuzzwords = supplied
    /\ searchInput = <<>>
    /\ debounceTimer = 0
    /\ timers = <<>>
    /\ searchCache = <<>>
    /\ view = StaticView
    /\ lastCall = NoCall
    /\ events = 0

\* What is typed into the loaded page: a word that overlaps no entry, and a
\* phrase
LoadQueries == { <<122, 122, 120, 120, 113, 113, 98, 97, 122, 105, 110, 103, 97>>, <<115, 121, 110, 101, 114, 103, 121>> }

LoadNext ==
  \/ DOMContentLoaded
  \/ \E value \in LoadQueries : Counted /\ InputEvent(value)
  \/ Counted /\ TimerFires
  \/ Counted /\ EnterKey
  \/ \E randomIndex \in 1..Max2(1, Len(buzzwords.items)) :
       Counted /\ showRandomBuzzword(randomIndex)

SpecLoad == LoadInit /\ [][LoadNext]_vars

\* The number of supplied entries that are no object or lack phrase or
\* translation
Malformed(supplied) ==
  Cardinality({ k \in 1..Len(supplied.items) :
                  \/ supplied.items[k].shape # "object"
                  \/ supplied.items[k].phrase = <<>>
                  \/ supplied.items[k].translation = "" })

\* C18: once the page has loaded, an engine exists iff the supplied
\* dictionary is present, is an array, is not empty and at most half of its
\* entries are malformed; without an engine the page shows the blocking
\* error with the reload button
C18_EngineIffAccepted ==
  view # StaticView =>
    /\ (searchEngine = "created")
         <=> ( /\ globalBuzzwords # Undefined
               /\ globalBuzzwords.isArray
               /\ Len(globalBuzzwords.items) > 0
               /\ 2 * Malformed(globalBuzzwords) <= Len(globalBuzzwords.items) )
    /\ searchEngine # "created" => view = InitializationErrorView

\* An engine runs on an array of which exactly half is malformed
C18_HalfMalformedAccepted ==
  /\ searchEngine = "created"
  /\ Len(globalBuzzwords.items) > 0
  /\ 2 * Malformed(globalBuzzwords) = Len(globalBuzzwords.items)

\* C17: after a successful load every entry of the array the engine reads
\* is an object with a non-empty phrase and a non-empty translation
C17_EngineArrayIsValid ==
  searchEngine = "created" =>
    \A k \in 1..Len(buzzwords.items) :
      /\ buzzwords.items[k].shape = "object"
      /\ buzzwords.items[k].phrase # <<>>
      /\ buzzwords.items[k].translation # ""

\* C19: on every accepted array a search for "zzxxqqbazinga", which
\* overlaps no phrase and no keyword, ends with status ok and an empty
\* list, and findSimilarBuzzwords returns a list for it without throwing
C19_NoOverlapSearchGivesEmptyList ==
  (lastCall.source # "none" /\ lastCall.query = <<122, 122, 120, 120, 113, 113, 98, 97, 122, 105, 110, 103, 97>>) =>
    /\ lastCall.status = "ok"
    /\ lastCall.results = <<>>
    /\ ~findSimilarBuzzwords(buzzwords, sanitizeInput(lastCall.query)).threw
-----------------------------------------------------------------------------
(* The similar terms of a query *)

MaxPrefix == 3

\* Queries a search passes on when it found nothing: they are sanitized
\* and valid.  The beginnings of the shipped phrases, and words around them
SimilarQueries ==
  { SubSeq(ShippedEntries[i].phrase, 1, n) :
      i \in 1..Len(ShippedEntries), n \in MinQueryLength..MaxPrefix }
  \cup { <<83, 89>>, <<116, 101, 97, 109, 119, 111, 114, 107, 115>>, <<120, 115, 121, 110, 101, 114, 103, 121>>, <<122, 122>>, <<109, 101, 110, 116>>, <<105, 110, 103>> }

SimilarInit ==
  \E array \in {ShippedBuzzwords, Dictionary(MainEntries),
                Dictionary(Append(MainEntries, MalformedEntries[4]))},
     value \in SimilarQueries :
    /\ validateSearchInput(value) = [valid |-> TRUE, sanitized |-> value, message |-> "valid"]
    /\ Typed(array, value)

\* showNoResults(null, 'no-results', query) for the typed query: the chips
\* of generateSmartSuggestions are written into the no-results view
generateSmartSuggestions ==
  /\ view = ExamplesView
  /\ view' = showNoResults(findSimilarBuzzwords(buzzwords, searchInput), searchInput).view
  /\ UNCHANGED <<searchEngine, buzzwords, globalBuzzwords, searchInput, debounceTimer,
                 timers, searchCache, lastCall, events>>

SimilarNext == generateSmartSuggestions

SpecSimilar == SimilarInit /\ [][SimilarNext]_vars

\* The weight of an entry for a lower-cased query
Weight(buzzword, query) ==
  IF \E k \in 1..Len(buzzword.keywords) :
       \/ StartsWith(ToLowerCase(buzzword.keywords[k]), query)
       \/ StartsWith(query, ToLowerCase(buzzword.keywords[k]))
    THEN 3
  ELSE IF \/ Includes(ToLowerCase(buzzword.phrase), query)
          \/ Includes(query, ToLowerCase(buzzword.phrase))
    THEN 2
  ELSE IF \E k \in 1..Len(buzzword.keywords) :
            /\ Includes(ToLowerCase(buzzword.keywords[k]), query)
            /\ Len(buzzword.keywords[k]) - Len(query) \in -3..3
    THEN 1
  ELSE 0

\* The positions of the entries that have a weight for the query
QualifyingFor(query) ==
  { k \in 1..Len(buzzwords.items) : Weight(buzzwords.items[k], query) > 0 }

\* suggestions has at most six elements in descending weight, each the
\* phrase of a qualifying entry with its weight; it has all of them or six,
\* and no qualifying entry left out weighs more than one that is in it
TopWeighted(suggestions, query) ==
  /\ Len(suggestions) = Min2(6, Cardinality(QualifyingFor(query)))
  /\ \A i, j \in 1..Len(suggestions) :
       i < j => suggestions[i].relevance >= suggestions[j].relevance
  /\ \A i \in 1..Len(suggestions) :
       \E k \in QualifyingFor(query) :
         /\ buzzwords.items[k].phrase = suggestions[i].phrase
         /\ Weight(buzzwords.items[k], query) = suggestions[i].relevance
  /\ \A k \in QualifyingFor(query) :
       \/ \E i \in 1..Len(suggestions) : suggestions[i].phrase = buzzwords.items[k].phrase
       \/ \A i \in 1..Len(suggestions) :
            suggestions[i].relevance >= Weight(buzzwords.items[k], query)

\* C20: the list findSimilarBuzzwords returns has at most 6 suggestions in
\* descending weight and holds exactly the highest-weighted qualifying
\* entries, with the weights 3, 2 and 1 of the three rules
C20_TopSixByWeight ==
  view.kind = "noResults" =>
    TopWeighted(view.suggestions, Trim(ToLowerCase(view.query)))

\* More than six entries qualify, with different weights, and entries of
\* the lowest weight are left out
C20_MoreThanSixQualify ==
  /\ view.kind = "noResults" /\ Len(view.suggestions) = 6
  /\ Cardinality(QualifyingFor(Trim(ToLowerCase(view.query)))) > 6
  /\ view.suggestions[1].relevance = 3
  /\ view.suggestions[6].relevance > 1
  /\ \E k \in QualifyingFor(Trim(ToLowerCase(view.query))) :
       Weight(buzzwords.items[k], Trim(ToLowerCase(view.query))) = 1
-----------------------------------------------------------------------------
(* Related suggestions of the results view *)

\* const maxSuggestions = 6
maxSuggestions == 6

\* results.some(r => r.match.toLowerCase() === phrase.toLowerCase()), or
\* phrase.toLowerCase() === query.toLowerCase()
AlreadyShown(results, query, phrase) ==
  \/ \E k \in 1..Len(results) : ToLowerCase(results[k].match) = ToLowerCase(phrase)
  \/ ToLowerCase(phrase) = ToLowerCase(query)

\* The Set holds entry objects: an entry is named by its position in
\* this.buzzwords.
\* categoryBuzzwords: this.buzzwords.filter(...).slice(0, 2)
categoryBuzzwords(items, results, query, category) ==
  Slice(SelectSeq([i \in 1..Len(items) |-> i],
                  LAMBDA i : /\ items[i].category = category
                             /\ ~AlreadyShown(results, query, items[i].phrase)),
        2)

\* forEach(b => suggestions.add(b))
RECURSIVE AddEach(_, _)
AddEach(suggestions, more) ==
  IF more = <<>> THEN suggestions
  ELSE AddEach(AddOnce(suggestions, Head(more)), Tail(more))

\* resultCategories.forEach
RECURSIVE SameCategories(_, _, _, _, _)
SameCategories(suggestions, categories, items, results, query) ==
  IF categories = <<>> THEN suggestions
  ELSE SameCategories(
         AddEach(suggestions, categoryBuzzwords(items, results, query, Head(categories))),
         Tail(categories), items, results, query)

\* The popularBuzzwords of generateRelatedSuggestions
RelatedPopularBuzzwords ==
  << <<115, 121, 110, 101, 114, 103, 121>>, <<112, 105, 118, 111, 116>>, <<108, 101, 118, 101, 114, 97, 103, 101>>, <<98, 97, 110, 100, 119, 105, 100, 116, 104>>, <<97, 99, 116, 105, 111, 110, 97, 98, 108, 101, 32, 105, 110, 115, 105, 103, 104, 116, 115>>,
     <<103, 97, 109, 101, 32, 99, 104, 97, 110, 103, 101, 114>>, <<115, 99, 97, 108, 97, 98, 108, 101>>, <<115, 116, 114, 101, 97, 109, 108, 105, 110, 101>>, <<111, 112, 116, 105, 109, 105, 122, 101>>, <<112, 97, 114, 97, 100, 105, 103, 109, 32, 115, 104, 105, 102, 116>> >>

\* this.buzzwords.find(...) for a popular phrase; 0 is undefined
FindPopular(items, results, query, phrase) ==
  IF \E i \in 1..Len(items) : /\ ToLowerCase(items[i].phrase) = ToLowerCase(phrase)
                              /\ ~AlreadyShown(results, query, phrase)
    THEN CHOOSE i \in 1..Len(items) :
           /\ ToLowerCase(items[i].phrase) = ToLowerCase(phrase)
           /\ \A j \in 1..(i - 1) : ToLowerCase(items[j].phrase) # ToLowerCase(phrase)
  ELSE 0

\* One step of popularBuzzwords.forEach, buzzword being what find returned
AddPopular(suggestions, buzzword) ==
  IF Len(suggestions) >= maxSuggestions \/ buzzword = 0 THEN suggestions
  ELSE AddOnce(suggestions, buzzword)

\* popularBuzzwords.forEach
RECURSIVE PopularAdded(_, _, _, _, _)
PopularAdded(suggestions, phrases, items, results, query) ==
  IF phrases = <<>> THEN suggestions
  ELSE PopularAdded(AddPopular(suggestions, FindPopular(items, results, query, Head(phrases))),
                    Tail(phrases), items, results, query)

\* The popular phrases added before the entries of the same categories
BeforeFillPopularFirst(items, results, query) ==
  SameCategories(
    PopularAdded(<<>>, RelatedPopularBuzzwords, items, results, query),
    Dedup([k \in 1..Len(results) |-> results[k].category]),
    items, results, query)

\* The Set before the random fill
BeforeFill(items, results, query) ==
  PopularAdded(
    SameCategories(<<>>, Dedup([k \in 1..Len(results) |-> results[k].category]),
                   items, results, query),
    RelatedPopularBuzzwords, items, results, query)

\* remainingBuzzwords before it is shuffled
remainingBuzzwords(suggestions, items, results, query) ==
  SelectSeq([i \in 1..Len(items) |-> i],
            LAMBDA i : /\ ~AlreadyShown(results, query, items[i].phrase)
                       /\ ~\E s \in 1..Len(suggestions) :
                            ToLowerCase(items[suggestions[s]].phrase)
                              = ToLowerCase(items[i].phrase))

\* .sort(() => 0.5 - Math.random()).slice(0, n): any n of the remaining
\* entries, in any order
Shuffled(remaining, n) ==
  { fill \in [1..Min2(n, Len(remaining)) -> {remaining[i] : i \in 1..Len(remaining)}] :
      \A i, j \in DOMAIN fill : i # j => fill[i] # fill[j] }

\* The lists the random fill can complete suggestions to
Filled(suggestions, items, results, query) ==
  IF Len(suggestions) < maxSuggestions
    THEN { Slice(AddEach(suggestions, fill), maxSuggestions) :
             fill \in Shuffled(remainingBuzzwords(suggestions, items, results, query),
                               maxSuggestions - Len(suggestions)) }
  ELSE { Slice(suggestions, maxSuggestions) }

\* generateRelatedSuggestions(results, query): the lists it can return
generateRelatedSuggestions(items, results, query) ==
  Filled(BeforeFill(items, results, query), items, results, query)

MaxRelatedDict == 7

\* The shipped array, and its first entries as an array
RelatedDictionaries ==
  { ShippedBuzzwords } \cup
  { Dictionary(SubSeq(ShippedEntries, 1, n)) : n \in 1..MaxRelatedDict }

\* The page after displayResults(results, query) wrote the result cards
Displayed(array, query, results) ==
  /\ Len(results) > 0
  /\ searchEngine = "created"
  /\ buzzwords = array
  /\ globalBuzzwords = array
  /\ searchInput = query
  /\ debounceTimer = 0
  /\ timers = <<>>
  /\ searchCache = <<>>
  /\ view = ResultsView(results, query)
  /\ lastCall = NoCall
  /\ events = 0

RelatedInit ==
  \E array \in RelatedDictionaries,
     query \in { ShippedEntries[i].phrase : i \in 1..MaxRelatedDict }
                \cup { <<83, 121, 110, 101, 114, 103, 121>>, <<112, 105, 118, 111, 116>>, <<116, 104, 101>>, <<97, 103, 105, 108, 101>> } :
    Displayed(array, query, searchWithFuzzyMatching(array, query).results)

\* addRelatedSuggestions(results, query): the chips are written under the
\* result cards
addRelatedSuggestions ==
  /\ view.kind = "results" /\ view.suggestions = <<>>
  /\ \E list \in generateRelatedSuggestions(buzzwords.items, view.results, view.query) :
       view' = [view EXCEPT !.suggestions = list]
  /\ UNCHANGED <<searchEngine, buzzwords, globalBuzzwords, searchInput, debounceTimer,
                 timers, searchCache, lastCall, events>>

RelatedNext == addRelatedSuggestions

SpecRelated == RelatedInit /\ [][RelatedNext]_vars

\* The phrase of entry i is, in any writing, a phrase of the results shown
\* or the query
PhraseShown(i) ==
  \/ \E k \in 1..Len(view.results) :
       ToLowerCase(view.results[k].match) = ToLowerCase(buzzwords.items[i].phrase)
  \/ ToLowerCase(view.query) = ToLowerCase(buzzwords.items[i].phrase)

\* Where entry i comes from: 1 when it is one of the first two entries not
\* shown of a category of the results, else 2 when its phrase is in the
\* fixed popular list, else 3
Origin(i) ==
  IF /\ \E k \in 1..Len(view.results) :
          view.results[k].category = buzzwords.items[i].category
     /\ Cardinality({ j \in 1..(i - 1) :
                        /\ buzzwords.items[j].category = buzzwords.items[i].category
                        /\ ~PhraseShown(j) }) < 2
    THEN 1
  ELSE IF \E p \in 1..Len(RelatedPopularBuzzwords) :
            RelatedPopularBuzzwords[p] = ToLowerCase(buzzwords.items[i].phrase)
    THEN 2
  ELSE 3

\* C21: the related suggestions are at most 6 different entries, none with
\* a phrase of the results or the query; same-category entries (two per
\* category) come before popular ones, and these before the random fill;
\* a later kind is used only when the earlier kinds are used up
C21_RelatedSuggestions ==
  (view.kind = "results" /\ view.suggestions # <<>>) =>
    /\ Len(view.suggestions) <= 6
    /\ \A a, b \in 1..Len(view.suggestions) :
         /\ a # b => view.suggestions[a] # view.suggestions[b]
         /\ a < b => Origin(view.suggestions[a]) <= Origin(view.suggestions[b])
    /\ \A a \in 1..Len(view.suggestions) : ~PhraseShown(view.suggestions[a])
    /\ \A a \in 1..Len(view.suggestions), i \in 1..Len(buzzwords.items) :
         (~PhraseShown(i) /\ Origin(i) < Origin(view.suggestions[a]))
           => \E b \in 1..Len(view.suggestions) : view.suggestions[b] = i

\* Six suggestions of all three kinds were given
C21_AllThreeKinds ==
  /\ view.kind = "results" /\ Len(view.suggestions) = 6
  /\ \A kind \in 1..3 :
       \E a \in 1..Len(view.suggestions) : Origin(view.suggestions[a]) = kind

\* searchResult is what the rules, taken in order, give for phrase, the
\* query, and the keyword score of the entry
FirstRuleDecides(searchResult, phrase, query, keywordScore) ==
  IF phrase = query
    THEN searchResult.relevanceScore = Lit_1_0 /\ searchResult.matchType = "exact"
  ELSE IF Includes(phrase, query)
    THEN searchResult.relevanceScore = Lit_0_95 /\ searchResult.matchType = "phrase_contains"
  ELSE IF Includes(query, phrase)
    THEN searchResult.relevanceScore = Lit_0_9 /\ searchResult.matchType = "query_contains"
  ELSE IF FLess(FZero, keywordScore)
    THEN searchResult.relevanceScore = keywordScore /\ searchResult.matchType = "keyword"
  ELSE searchResult.matchType \in {"fuzzy", ""}

\* The entry a result was made of
EntryOf(searchResult) ==
  buzzwords.items[CHOOSE i \in 1..Len(buzzwords.items) :
                    /\ WellFormed(buzzwords.items[i])
                    /\ buzzwords.items[i].phrase = searchResult.match]

\* C22: for every result of a search the first rule that qualifies for its
\* entry decided score and type: exact 1.0, phrase contains query 0.95,
\* query contains phrase 0.9, then a positive keyword score, and fuzzy only
\* when the keyword score is 0; no entry is in the list twice
C22_FirstRuleDecides ==
  Computed =>
    \A k \in 1..Len(lastCall.results) :
      /\ FirstRuleDecides(
           lastCall.results[k], ToLowerCase(lastCall.results[k].match), CallNormalized,
           calculateKeywordMatches(EntryOf(lastCall.results[k]),
                                   SplitWords(CallNormalized)).score)
      /\ lastCall.results[k].matchType # ""
      /\ \A l \in 1..Len(lastCall.results) :
           k # l => lastCall.results[k].match # lastCall.results[l].match

\* A result whose phrase contains the query has a positive keyword score
\* too and is of type phrase_contains
C22_ContainsBeforeKeyword ==
  /\ Computed
  /\ \E k \in 1..Len(lastCall.results) :
       /\ lastCall.results[k].matchType = "phrase_contains"
       /\ FLess(FZero, calculateKeywordMatches(EntryOf(lastCall.results[k]),
                                               SplitWords(CallNormalized)).score)

\* What one keyword gives a query term: 1.0 when equal, 0.8 when the
\* keyword contains the term, 0.7 when the term contains the keyword, half
\* the similarity when that is above 0.6, else nothing
TermValue(keyword, term) ==
  CASE keyword = term -> Lit_1_0
    [] keyword # term /\ Includes(keyword, term) -> Lit_0_8
    [] ~Includes(keyword, term) /\ Includes(term, keyword) -> Lit_0_7
    [] OTHER -> IF FLess(Lit_0_6, calculateFuzzyMatch(keyword, term))
                  THEN FMul(calculateFuzzyMatch(keyword, term), Lit_0_5)
                ELSE FZero

\* The best value over the keywords: one that no other exceeds
BestValue(keywords, term) ==
  IF keywords = <<>> THEN FZero
  ELSE TermValue(ToLowerCase(keywords[
         CHOOSE k \in 1..Len(keywords) :
           \A l \in 1..Len(keywords) :
             ~FLess(TermValue(ToLowerCase(keywords[k]), term),
                    TermValue(ToLowerCase(keywords[l]), term))]), term)

\* The sum of the best values of the first n terms
RECURSIVE SumOfBest(_, _, _)
SumOfBest(keywords, terms, n) ==
  IF n = 0 THEN FZero
  ELSE FAdd(SumOfBest(keywords, terms, n - 1), BestValue(keywords, terms[n]))

\* min(0.85, 0.4 + (sum / max(terms, keywords)) * 0.45) for a positive sum
ScoreOfSum(sum, terms, keywords) ==
  IF FLess(FZero, sum)
    THEN FMin(Lit_0_85, FAdd(Lit_0_4, FMul(FDivInt(sum, Max2(terms, keywords)), Lit_0_45)))
  ELSE FZero

\* C23: the score of every keyword result is the formula applied to the sum
\* of the best values of the query terms, and lies in (0.4, 0.85]; a
\* result of the later fuzzy rule has a sum of zero; the search for "teamwork" over the shipped array returns synergy as a
\* keyword result
C23_KeywordScore ==
  Computed =>
    /\ \A k \in 1..Len(lastCall.results) :
         lastCall.results[k].matchType = "keyword" =>
           /\ lastCall.results[k].relevanceScore =
                ScoreOfSum(SumOfBest(EntryOf(lastCall.results[k]).keywords,
                                     SplitWords(CallNormalized),
                                     Len(SplitWords(CallNormalized))),
                           Len(SplitWords(CallNormalized)),
                           Len(EntryOf(lastCall.results[k]).keywords))
           /\ FLess(Lit_0_4, lastCall.results[k].relevanceScore)
           /\ ~FLess(Lit_0_85, lastCall.results[k].relevanceScore)
    /\ \A k \in 1..Len(lastCall.results) :
         lastCall.results[k].matchType = "fuzzy" =>
           SumOfBest(EntryOf(lastCall.results[k]).keywords,
                     SplitWords(CallNormalized),
                     Len(SplitWords(CallNormalized))) = FZero
    /\ (buzzwords = ShippedBuzzwords /\ lastCall.query = <<116, 101, 97, 109, 119, 111, 114, 107>>) =>
         \E k \in 1..Len(lastCall.results) :
           /\ lastCall.results[k].match = <<115, 121, 110, 101, 114, 103, 121>>
           /\ lastCall.results[k].matchType = "keyword"

\* "teamwork" was searched over the shipped array and gave a keyword result
C23_TeamworkSearched ==
  /\ Computed
  /\ buzzwords = ShippedBuzzwords /\ lastCall.query = <<116, 101, 97, 109, 119, 111, 114, 107>>
  /\ \E k \in 1..Len(lastCall.results) : lastCall.results[k].matchType = "keyword"

\* The length of the common prefix: the first position where the strings
\* differ or one of them ends, less one
CommonPrefixLength(s, t) ==
  (CHOOSE p \in 1..(Min2(Len(s), Len(t)) + 1) :
     /\ \A i \in 1..(p - 1) : s[i] = t[i]
     /\ (p <= Min2(Len(s), Len(t)) => s[p] # t[p])) - 1

\* 0.1 for each of the p characters of the common prefix, added one by one
RECURSIVE BonusOf(_)
BonusOf(p) == IF p = 0 THEN FZero ELSE FAdd(BonusOf(p - 1), Lit_0_1)

\* min(1.0, 1 - distance / longerLength + 0.1 for each character of the
\* common prefix)
SimilarityOf(phrase, query) ==
  FMin(Lit_1_0,
       FAdd(FSub(Lit_1_0, FDivInt(FInt(levenshteinDistance(phrase, query)),
                                  Max2(Len(phrase), Len(query)))),
            BonusOf(CommonPrefixLength(phrase, query))))

\* C24: every fuzzy result has a similarity above 0.3 between the lowercased
\* phrase and the normalized query, the score similarity * 0.6, the
\* normalized query as its only matched term and a score in (0.18, 0.6]
C24_FuzzyRule ==
  Computed =>
    \A k \in 1..Len(lastCall.results) :
      lastCall.results[k].matchType = "fuzzy" =>
        /\ FLess(Lit_0_3, SimilarityOf(ToLowerCase(lastCall.results[k].match),
                                       CallNormalized))
        /\ lastCall.results[k].relevanceScore =
             FMul(SimilarityOf(ToLowerCase(lastCall.results[k].match),
                               CallNormalized), Lit_0_6)
        /\ lastCall.results[k].matchedKeywords = <<CallNormalized>>
        /\ FLess(F(18, 100), lastCall.results[k].relevanceScore)
        /\ ~FLess(Lit_0_6, lastCall.results[k].relevanceScore)

\* A search returned a fuzzy result whose phrase shares a prefix with the
\* query
C24_FuzzyWithPrefix ==
  /\ Computed
  /\ \E k \in 1..Len(lastCall.results) :
       /\ lastCall.results[k].matchType = "fuzzy"
       /\ CommonPrefixLength(ToLowerCase(lastCall.results[k].match), CallNormalized) > 0
       /\ FLess(lastCall.results[k].relevanceScore, Lit_0_6)

-----------------------------------------------------------------------------
(* The edit distance of two strings.  calculateFuzzyMatch passes
   levenshteinDistance a lowercased phrase or keyword and the query or one of
   its words. *)

\* The longest string of the enumerated pairs
MaxWord == 3

\* The strings over two characters, from "" up to MaxWord characters
Words == UNION { [1..n -> {97, 98}] : n \in 0..MaxWord }

Kitten == <<107, 105, 116, 116, 101, 110>>
Sitting == <<115, 105, 116, 116, 105, 110, 103>>

DistancePairs == (Words \X Words) \cup {<<Kitten, Sitting>>, <<Sitting, Kitten>>}

\* The page with one pair of strings about to be compared
DistanceInit ==
  \E pair \in DistancePairs :
    /\ searchEngine = "created"
    /\ buzzwords = Dictionary(MainEntries)
    /\ globalBuzzwords = Dictionary(MainEntries)
    /\ searchInput = pair[2]
    /\ debounceTimer = 0
    /\ timers = <<>>
    /\ searchCache = <<>>
    /\ view = ExamplesView
    /\ lastCall = [source |-> "calculateFuzzyMatch", str1 |-> pair[1], str2 |-> pair[2],
                   returned |-> FALSE, distance |-> 0]
    /\ events = 0

\* const distance = this.levenshteinDistance(str1, str2)
Measure ==
  /\ ~lastCall.returned
  /\ lastCall' = [lastCall EXCEPT !.returned = TRUE,
                    !.distance = levenshteinDistance(lastCall.str1, lastCall.str2)]
  /\ UNCHANGED <<searchEngine, buzzwords, globalBuzzwords, searchInput, debounceTimer,
                 timers, searchCache, view, events>>

DistanceNext == Measure

SpecDistance == DistanceInit /\ [][DistanceNext]_vars

\* The least number of insertions, deletions and substitutions of one
\* character that turn x into y
RECURSIVE EditDistance(_, _)
EditDistance(x, y) ==
  IF x = <<>> THEN Len(y)
  ELSE IF y = <<>> THEN Len(x)
  ELSE Min2(Min2(EditDistance(Tail(x), y) + 1, EditDistance(x, Tail(y)) + 1),
            EditDistance(Tail(x), Tail(y)) + (IF Head(x) = Head(y) THEN 0 ELSE 1))

\* C25: the distance returned for x and y is their unit-cost edit distance;
\* it is 0 when x = y, it is the distance returned for y and x, it is the
\* length of x when y is empty, and it is 3 for "kitten" and "sitting"
C25_EditDistance ==
  lastCall.returned =>
    /\ lastCall.distance = EditDistance(lastCall.str1, lastCall.str2)
    /\ lastCall.str1 = lastCall.str2 => lastCall.distance = 0
    /\ lastCall.distance = levenshteinDistance(lastCall.str2, lastCall.str1)
    /\ lastCall.str2 = <<>> => lastCall.distance = Len(lastCall.str1)
    /\ (lastCall.str1 = Kitten /\ lastCall.str2 = Sitting) => lastCall.distance = 3

\* "kitten" and "sitting" were compared
C25_KittenSitting ==
  /\ lastCall.returned
  /\ lastCall.str1 = Kitten /\ lastCall.str2 = Sitting
  /\ lastCall.distance = 3

-----------------------------------------------------------------------------
(* The sanitizer on its own.  validateSearchInput passes sanitizeInput the
   raw value of the search box. *)

\* The longest raw value of the enumeration
MaxInput == 5

\* "a", a space, a tab, the control character \x01 and "<"
InputCharacters == {97, 32, 9, 1, 60}

RawInputs == UNION { [1..n -> InputCharacters] : n \in 0..MaxInput }

\* The page with one raw value about to be sanitized
SanitizeInit ==
  \E input \in RawInputs :
    /\ searchEngine = "created"
    /\ buzzwords = Dictionary(MainEntries)
    /\ globalBuzzwords = Dictionary(MainEntries)
    /\ searchInput = input
    /\ debounceTimer = 0
    /\ timers = <<>>
    /\ searchCache = <<>>
    /\ view = ExamplesView
    /\ lastCall = [source |-> "validateSearchInput", input |-> input,
                   returned |-> FALSE, sanitized |-> <<>>]
    /\ events = 0

\* const sanitized = this.sanitizeInput(query)
Sanitize ==
  /\ ~lastCall.returned
  /\ lastCall' = [lastCall EXCEPT !.returned = TRUE,
                    !.sanitized = sanitizeInput(lastCall.input)]
  /\ UNCHANGED <<searchEngine, buzzwords, globalBuzzwords, searchInput, debounceTimer,
                 timers, searchCache, view, events>>

SanitizeNext == Sanitize

SpecSanitize == SanitizeInit /\ [][SanitizeNext]_vars

\* C26: the sanitized string holds no control character, no two whitespace
\* characters in a row and no whitespace at either end, and sanitizing it
\* again returns it unchanged
C26_SanitizedIsClean ==
  lastCall.returned =>
    /\ \A i \in 1..Len(lastCall.sanitized) : ~IsControl(lastCall.sanitized[i])
    /\ \A i \in 1..(Len(lastCall.sanitized) - 1) :
         ~(IsWhitespace(lastCall.sanitized[i]) /\ IsWhitespace(lastCall.sanitized[i + 1]))
    /\ lastCall.sanitized # <<>> =>
         /\ ~IsWhitespace(lastCall.sanitized[1])
         /\ ~IsWhitespace(lastCall.sanitized[Len(lastCall.sanitized)])
    /\ sanitizeInput(lastCall.sanitized) = lastCall.sanitized

\* C27: among the results of a search the comparator is transitive: when it
\* places a before b and b before c, it places a before c
C27_ComparatorTransitive ==
  Computed =>
    \A i, j, k \in 1..Len(lastCall.results) :
      ( /\ Compare(lastCall.results[i], lastCall.results[j]) < 0
        /\ Compare(lastCall.results[j], lastCall.results[k]) < 0 )
      => Compare(lastCall.results[i], lastCall.results[k]) < 0

\* C28: whenever no debounced search is pending, the view shown is the one
\* performSearch produces for the value in the search box
C28_ViewMatchesInput ==
  timers = <<>> => view = performSearch(searchCache, buzzwords, searchInput).view

\* The score the matcher gave goes with its type: exact 1.0, phrase
\* contains 0.95, query contains 0.9, keyword above 0.4, fuzzy above 0.18,
\* and 0 for an entry without a type; a score that is not 0 is above 0.1
Classified(searchResult) ==
  /\ searchResult.matchType = "exact" => searchResult.relevanceScore = Lit_1_0
  /\ searchResult.matchType = "phrase_contains" => searchResult.relevanceScore = Lit_0_95
  /\ searchResult.matchType = "query_contains" => searchResult.relevanceScore = Lit_0_9
  /\ searchResult.matchType = "keyword" => FLess(Lit_0_4, searchResult.relevanceScore)
  /\ searchResult.matchType = "fuzzy" => FLess(F(18, 100), searchResult.relevanceScore)
  /\ searchResult.matchType = "" <=> searchResult.relevanceScore = FZero
  /\ searchResult.relevanceScore # FZero => FLess(Lit_0_1, searchResult.relevanceScore)

\* The scores the matcher gave the entries the search handed to it
Scored(relevant, normalizedQuery, queryWords) ==
  [i \in 1..Len(relevant) |->
     calculateRelevanceScore(relevant[i], normalizedQuery, queryWords)]

\* Every score is classified, and the list returned has the entries with a
\* score other than 0, up to the cut at 10
NonZeroKept(scored, results) ==
  /\ \A i \in 1..Len(scored) : Classified(scored[i])
  /\ Len(results) =
       Min2(TopK, Cardinality({i \in 1..Len(scored) : scored[i].relevanceScore # FZero}))
  /\ \A k \in 1..Len(results) :
       \E i \in 1..Len(scored) :
         scored[i].match = results[k].match /\ scored[i].relevanceScore # FZero

\* C29: every score of the matcher that is not 0 is above 0.1, so the
\* threshold of the ranker removes the entries scored 0 and no other
C29_ThresholdRemovesOnlyZero ==
  Computed =>
    NonZeroKept(Scored(Relevant(buzzwords.items, CallNormalized, SplitWords(CallNormalized)),
                       CallNormalized, SplitWords(CallNormalized)),
                lastCall.results)

\* A search whose matcher scored one entry 0 and classified another
\* with a score below 0.5
C29_ZeroAndLowScores ==
  /\ Computed
  /\ \E k \in 1..Len(lastCall.results) : FLess(lastCall.results[k].relevanceScore, Lit_0_5)
  /\ Len(lastCall.results) <
       Len(Relevant(buzzwords.items, CallNormalized, SplitWords(CallNormalized)))
  /\ Len(Relevant(buzzwords.items, CallNormalized, SplitWords(CallNormalized))) <= TopK

-----------------------------------------------------------------------------
(* The validation of a raw value.  performSearch passes validateSearchInput
   the value of the search box, a chip or the random entry. *)

\* The longest of the short raw values of the enumeration
MaxRaw == 3

\* "a", "5", a space, "<" and the control character \x01
RawCharacters == {97, 53, 32, 60, 1}

Digits(n) == [i \in 1..n |-> 53]

\* Letters with markup characters after them
LettersThenMarkup(n, m) == [i \in 1..(n + m) |-> IF i <= n THEN 97 ELSE 60]

\* Two letters with n spaces between them
LettersApart(n) == [i \in 1..(n + 2) |-> IF i = 1 \/ i = n + 2 THEN 97 ELSE 32]

\* The short values, and values around the limit of 100 characters
ValidatedInputs ==
  UNION { [1..n -> RawCharacters] : n \in 0..MaxRaw }
  \cup { Digits(MaxQueryLength + 1), Digits(MaxQueryLength),
         Letters(MaxQueryLength + 1), Letters(MaxQueryLength),
         LettersThenMarkup(MaxQueryLength, 3), LettersThenMarkup(MaxQueryLength + 1, 3),
         LettersApart(MaxQueryLength), [i \in 1..(MaxQueryLength + 1) |-> 60] }

\* The page with one raw value about to be validated
ValidateInit ==
  \E input \in ValidatedInputs :
    /\ searchEngine = "created"
    /\ buzzwords = Dictionary(MainEntries)
    /\ globalBuzzwords = Dictionary(MainEntries)
    /\ searchInput = input
    /\ debounceTimer = 0
    /\ timers = <<>>
    /\ searchCache = <<>>
    /\ view = ExamplesView
    /\ lastCall = [source |-> "performSearch", input |-> input, returned |-> FALSE,
                   validation |-> [valid |-> FALSE, sanitized |-> <<>>, message |-> ""]]
    /\ events = 0

\* const validation = this.validateSearchInput(query)
Validate ==
  /\ ~lastCall.returned
  /\ lastCall' = [lastCall EXCEPT !.returned = TRUE,
                    !.validation = validateSearchInput(lastCall.input)]
  /\ UNCHANGED <<searchEngine, buzzwords, globalBuzzwords, searchInput, debounceTimer,
                 timers, searchCache, view, events>>

ValidateNext == Validate

SpecValidate == ValidateInit /\ [][ValidateNext]_vars

\* Every character of the value is one the sanitizer strips, or whitespace
OnlyStripped(input) ==
  \A i \in 1..Len(input) :
    IsMarkup(input[i]) \/ IsControl(input[i]) \/ IsWhitespace(input[i])

OnlyDigits(input) == \A i \in 1..Len(input) : input[i] \in 48..57

\* The first of the checks empty, tooShort, tooLong, noLetters that applies
\* to the sanitized string
FirstCheck(sanitized) ==
  CASE Len(sanitized) = 0 -> "empty"
    [] Len(sanitized) = 1 -> "too_short"
    [] Len(sanitized) > 100 -> "too_long"
    [] Len(sanitized) \in 2..100 /\ \A i \in 1..Len(sanitized) : ~IsLetter(sanitized[i])
         -> "invalid_characters"
    [] OTHER -> "valid"

\* C30: the verdict is the first check that applies to the sanitized value:
\* a value of stripped characters and whitespace is empty, one digit is too
\* short, more than 100 digits are too long, and a value longer than 100
\* characters whose sanitized form has at most 100 is not too long
C30_ValidationPrecedence ==
  lastCall.returned =>
    /\ lastCall.validation.sanitized = sanitizeInput(lastCall.input)
    /\ lastCall.validation.message = FirstCheck(lastCall.validation.sanitized)
    /\ lastCall.validation.valid <=> lastCall.validation.message \in {"empty", "valid"}
    /\ OnlyStripped(lastCall.input) => lastCall.validation.message = "empty"
    /\ (Len(lastCall.input) = 1 /\ OnlyDigits(lastCall.input))
         => lastCall.validation.message = "too_short"
    /\ (Len(lastCall.input) > 100 /\ OnlyDigits(lastCall.input))
         => lastCall.validation.message = "too_long"
    /\ (Len(lastCall.input) > 100 /\ Len(lastCall.validation.sanitized) <= 100)
         => lastCall.validation.message # "too_long"

\* A value of more than 100 characters was accepted after sanitization
C30_LongRawAccepted ==
  /\ lastCall.returned
  /\ Len(lastCall.input) > 100
  /\ lastCall.validation.message = "valid"
====
